---------------------------- MODULE Spec2Model ----------------------------
(***************************************************************************)
(* A model of the FaceInsight core: the hybrid top-K matcher               *)
(* (face_processor.py), the relational store with its capped collections   *)
(* (database.py), the web handlers that add training samples (app.py) and  *)
(* the ingestion pipeline (inbox_monitor.py).                              *)
(*                                                                         *)
(* Similarity scores are exact rationals [num, den] (den > 0): the code    *)
(* computes them in floating point, the model leaves rounding out.         *)
(***************************************************************************)
EXTENDS Integers, Sequences, FiniteSets, TLC

(***************************************************************************)
(* Bounds of the model.                                                    *)
(***************************************************************************)
\* longest gallery handed to find_match
MaxGallery == 3
\* largest voting_top_k handed to find_match
MaxTopK == 3
\* persons rows ever inserted
MaxPersons == 2
\* face_images rows ever inserted where the web handlers and the watcher act
MaxFaceImages == 3
\* face_images rows ever inserted where only auto_train_face is called
MaxEnrolments == 4
\* recognition_history rows ever inserted
MaxHistory == 3
\* seconds the clock advances
MaxClock == 2
\* largest max_images_per_person that is configured
MaxMaxImages == 2
\* the ceiling handed to the history ledger (the program passes 30)
MaxRecords == 2
\* injected I/O faults in one behaviour
MaxFaults == 1
\* create events waiting for delivery
MaxEvents == 2
\* largest file size a look at a file reports
MaxSize == 2
\* largest number of file-name timestamps drawn by enrollments
MaxStamp == 5
\* largest number of identities created where only names matter
MaxNames == 4

(***************************************************************************)
(* Generic helpers.                                                        *)
(***************************************************************************)
Range(s) == {s[i] : i \in 1..Len(s)}

SeqsUpTo(S, n) == UNION {[1..m -> S] : m \in 0..n}

RECURSIVE SumSet(_, _)
\* sum of f[x] over the finite set S
SumSet(f, S) ==
    IF S = {} THEN 0
    ELSE LET x == CHOOSE y \in S : TRUE IN f[x] + SumSet(f, S \ {x})

\* rationals
Rat(n, d) == [num |-> n, den |-> d]
RatGt(a, b) == a.num * b.den > b.num * a.den
RatEq(a, b) == a.num * b.den = b.num * a.den

(***************************************************************************)
(* MatchEngine: FaceProcessor.compare_faces and FaceProcessor.find_match.  *)
(* An embedding is a sequence of integers; a gallery row is                *)
(* [img_id, name, nickname, embedding] as get_all_embeddings returns it.   *)
(***************************************************************************)
NoMatch == [img_id |-> 0, name |-> "", nickname |-> "", score |-> Rat(0, 1)]

RECURSIVE Dot(_, _)
\* np.dot of two vectors of the same length
Dot(u, v) ==
    IF Len(u) = 0 THEN 0 ELSE Head(u) * Head(v) + Dot(Tail(u), Tail(v))

\* compare_faces: 0.0 on a size mismatch, else the dot product
compare_faces(embedding1, embedding2) ==
    IF Len(embedding1) # Len(embedding2) THEN 0 ELSE Dot(embedding1, embedding2)

\* the mutant of SizeMismatch: the size check never skips a row
SizeMismatchNever(db_embedding, test_embedding) == FALSE

\* the test of find_match's first loop that skips a gallery row
SizeMismatch(db_embedding, test_embedding) ==
    Len(db_embedding) # Len(test_embedding)

RECURSIVE GroupScores(_, _, _)
\* find_match's first loop over rows i..Len(g): person_data as the sequence of
\* names in first-seen order (a dict keeps insertion order) and, per name, the
\* list of (score, img_id) in gallery order and the nickname first seen.
GroupScores(test_embedding, g, pd) ==
    IF g = <<>> THEN pd
    ELSE LET row == Head(g) IN
         IF SizeMismatch(row.embedding, test_embedding)
         THEN GroupScores(test_embedding, Tail(g), pd)
         ELSE LET s == [score |-> compare_faces(test_embedding, row.embedding),
                        img_id |-> row.img_id]
                  known == \E i \in 1..Len(pd) : pd[i].name = row.name
                  pd2 == IF known
                         THEN [i \in 1..Len(pd) |->
                                 IF pd[i].name = row.name
                                 THEN [pd[i] EXCEPT !.scores = Append(@, s)]
                                 ELSE pd[i]]
                         ELSE Append(pd, [name |-> row.name,
                                          nickname |-> row.nickname,
                                          scores |-> <<s>>])
              IN GroupScores(test_embedding, Tail(g), pd2)

RECURSIVE InsertDesc(_, _)
\* x put into the descending list s after every element with score >= x.score
InsertDesc(x, s) ==
    IF s = <<>> THEN <<x>>
    ELSE IF Head(s).score >= x.score THEN <<Head(s)>> \o InsertDesc(x, Tail(s))
    ELSE <<x>> \o s

RECURSIVE SortedDesc(_)
\* sorted(scores_with_ids, key=lambda x: x[0], reverse=True): stable, so equal
\* scores keep their gallery order
SortedDesc(s) ==
    IF s = <<>> THEN <<>>
    ELSE InsertDesc(s[Len(s)], SortedDesc(SubSeq(s, 1, Len(s) - 1)))

RECURSIVE SumScores(_)
SumScores(s) == IF s = <<>> THEN 0 ELSE Head(s).score + SumScores(Tail(s))

\* the mutant of TopScores: the slice is dropped and every score is averaged
TopScoresAll(sorted_scores, top_k) == sorted_scores

\* sorted_scores[:top_k]
TopScores(sorted_scores, top_k) ==
    SubSeq(sorted_scores, 1, IF top_k < Len(sorted_scores) THEN top_k
                             ELSE Len(sorted_scores))

\* the mutant of BestSingle: the sparse branch averages instead of taking the best
BestSingleAverage(sorted_scores) == Rat(SumScores(sorted_scores), Len(sorted_scores))

\* the else branch of the hybrid score: sorted_scores[0][0]
BestSingle(sorted_scores) == Rat(sorted_scores[1].score, 1)

\* the hybrid score of one person: [final_score, best_img_id]
PersonScore(scores_with_ids, top_k) ==
    LET sorted_scores == SortedDesc(scores_with_ids) IN
    IF Len(scores_with_ids) >= top_k
    THEN LET top_scores == TopScores(sorted_scores, top_k) IN
         [final_score |-> Rat(SumScores(top_scores), Len(top_scores)),
          best_img_id |-> top_scores[1].img_id]
    ELSE [final_score |-> BestSingle(sorted_scores),
          best_img_id |-> sorted_scores[1].img_id]

\* the mutant of Improves: a score equal to the best so far replaces it
ImprovesOrEqual(final_score, best_score) == ~RatGt(best_score, final_score)

\* find_match's update test: final_score > best_score
Improves(final_score, best_score) == RatGt(final_score, best_score)

\* the mutant of NextBest: the running best score is never raised
NextBestStuck(final_score, best_score) == best_score

\* find_match's update of the running best: best_score = final_score
NextBest(final_score, best_score) == final_score

RECURSIVE BestOver(_, _, _, _)
\* find_match's second loop: best_match and best_score over person_data
BestOver(pd, top_k, best_score, best_match) ==
    IF pd = <<>> THEN best_match
    ELSE LET p == Head(pd)
             ps == PersonScore(p.scores, top_k)
         IN IF Improves(ps.final_score, best_score)
            THEN BestOver(Tail(pd), top_k, NextBest(ps.final_score, best_score),
                          [img_id |-> ps.best_img_id, name |-> p.name,
                           nickname |-> p.nickname, score |-> ps.final_score])
            ELSE BestOver(Tail(pd), top_k, best_score, best_match)

\* find_match(test_embedding, database_embeddings, threshold, top_k), top_k >= 1;
\* NoMatch stands for None
find_match(test_embedding, database_embeddings, threshold, top_k) ==
    BestOver(GroupScores(test_embedding, database_embeddings, <<>>),
             top_k, threshold, NoMatch)

(***************************************************************************)
(* The inputs find_match is checked on.                                    *)
(***************************************************************************)
PersonNames == {"a", "b"}
Nickname(name) == IF name = "a" THEN "A" ELSE "B"

\* embeddings of two sizes; against the probe <<1, 1>> the two-dimensional ones
\* score 1, 2 and 3
Embeddings == {<<0, 1>>, <<1, 1>>, <<2, 1>>, <<3>>}
Probes == {<<1, 1>>, <<2>>}
Thresholds == {Rat(0, 1), Rat(1, 1), Rat(3, 2), Rat(2, 1), Rat(5, 2)}
TopKs == 1..MaxTopK

\* galleries: img_id is the row's position
Galleries ==
    {[i \in 1..Len(g) |-> [img_id |-> i, name |-> g[i][1],
                           nickname |-> Nickname(g[i][1]), embedding |-> g[i][2]]]
       : g \in SeqsUpTo(PersonNames \X Embeddings, MaxGallery)}

(***************************************************************************)
(* The relational store and the file store (database.py).  A store S is a  *)
(* record:                                                                 *)
(*   persons             rows [id, name, nickname]                         *)
(*   face_images         rows [id, person_id, image_path,                  *)
(*                             original_image_path, embedding, created_at] *)
(*   recognition_history rows [id, person_id, person_name, nickname,       *)
(*                             score, image_path, thumbnail_path,          *)
(*                             timestamp, trained_image_id]                *)
(*   settings            [max_images_per_person, auto_train_enabled,       *)
(*                        recognition_threshold, voting_top_k]             *)
(*   raw                 per numeric setting, what its stored text is:     *)
(*                       "numeric" (the value under settings), "empty" or  *)
(*                       "text" (anything float() or int() rejects)        *)
(*   seq                 the AUTOINCREMENT counters of the three tables    *)
(*   files               the media files that exist (paths are tuples)     *)
(*   dirs                the per-person directories that exist, as         *)
(*                       <<"detect" or "original", person name>>           *)
(*   inbox               the watched directory: file name -> content       *)
(*   clock               CURRENT_TIMESTAMP, in whole seconds               *)
(*   stamp               the last datetime.now() string used in a file name*)
(*   published           publish_detection calls made                      *)
(*   delivered           publish_detection calls that returned True        *)
(*   mqtt                the MQTTClient: [host] a host is configured,      *)
(*                       [client] self.client is set, [connected]          *)
(*   retrain_progress    app.py's global of that name: [is_running,        *)
(*                       current, total, current_person, status]           *)
(*   faultsLeft          I/O faults that may still be injected             *)
(*   steps               the steps the process_image call in progress has  *)
(*                       taken, in order; <<>> while none is in progress   *)
(* An operation maps a store to the set of its possible outcomes           *)
(* [st, ret, exc]: the store after it, its return value, and whether it    *)
(* raised.  Foreign keys are enforced (PRAGMA foreign_keys = ON).          *)
(***************************************************************************)
\* SQL NULL and Python None, for ids
NULL == 0
\* a missing path
NoPath == <<>>

Outcome(S, r) == [st |-> S, ret |-> r, exc |-> FALSE]

\* the store once a process_image call in progress has taken the step
Step(S, step) == IF S.steps = <<>> THEN S ELSE [S EXCEPT !.steps = Append(@, step)]
Raise(S) == [st |-> S, ret |-> NULL, exc |-> TRUE]

Prefix(s, n) == SubSeq(s, 1, IF n < Len(s) THEN n ELSE Len(s))

\* the settings that are read as numbers, and what their text can be
SettingKeys == {"recognition_threshold", "voting_top_k", "max_images_per_person"}
RawKinds == {"numeric", "empty", "text"}

\* the value after "or" in float(get_setting(key) or 0.4), int(... or 3),
\* int(... or 10)
Fallback(key) ==
    IF key = "recognition_threshold" THEN Rat(2, 5)
    ELSE IF key = "voting_top_k" THEN 3
    ELSE 10

\* float() or int() of the stored text raises ValueError
Unparsable(S, key) == S.raw[key] = "text"

\* float(get_setting(key) or default), int(get_setting(key) or default):
\* an empty text is falsy and gives the default
NumberSetting(S, key) ==
    IF S.raw[key] = "empty" THEN Fallback(key) ELSE S.settings[key]

\* the mutant of RemoveFile: the file is left in place
RemoveFileSkipped(S, path) == {S}

\* os.remove of an existing file inside try/except (also _safe_delete_file):
\* the file goes, or the removal fails and the file stays
RemoveFile(S, path) ==
    IF path \notin S.files THEN {S}
    ELSE {[S EXCEPT !.files = @ \ {path}]}
         \cup (IF S.faultsLeft > 0 THEN {[S EXCEPT !.faultsLeft = @ - 1]} ELSE {})

RECURSIVE RemoveFiles(_, _)
\* the files of a list removed one after the other
RemoveFiles(S, paths) ==
    IF paths = <<>> THEN {S}
    ELSE UNION {RemoveFiles(S1, Tail(paths)) : S1 \in RemoveFile(S, Head(paths))}

\* ORDER BY created_at [ASC]: SQLite sorts the rows found through
\* idx_face_images_person_id, equal timestamps stay in rowid order
FaceOlder(f, g) ==
    \/ f.created_at < g.created_at
    \/ f.created_at = g.created_at /\ f.id < g.id

RECURSIVE FacesByAge(_)
\* the rows as a list, FaceOlder(f, g) for every f listed before g
FacesByAge(rows) ==
    IF rows = {} THEN <<>>
    ELSE LET first == CHOOSE f \in rows : \A g \in rows \ {f} : FaceOlder(f, g)
         IN <<first>> \o FacesByAge(rows \ {first})

\* get_face_images(person_id): oldest first
get_face_images(S, person_id) ==
    FacesByAge({f \in S.face_images : f.person_id = person_id})

get_face_count(S, person_id) ==
    Cardinality({f \in S.face_images : f.person_id = person_id})

\* the mutant of get_oldest_face_image: the newest image is taken
get_newest_face_image(S, person_id) ==
    LET images == get_face_images(S, person_id)
    IN IF images = <<>> THEN <<>> ELSE <<images[Len(images)]>>

\* get_oldest_face_image(person_id): <<>> for None
get_oldest_face_image(S, person_id) == Prefix(get_face_images(S, person_id), 1)

\* the files in a per-person directory
DirFiles(S, dir) == {f \in S.files : f[1] = dir[1] /\ f[2] = dir[2]}

\* os.makedirs(detect_dir, exist_ok=True); os.makedirs(original_dir, exist_ok=True)
MakePersonDirs(S, person_name) ==
    [S EXCEPT !.dirs = @ \cup {<<"detect", person_name>>, <<"original", person_name>>}]

\* _cleanup_empty_person_folders(person_name): each of the person's two
\* directories is removed when it exists and lists no file
_cleanup_empty_person_folders(S, person_name) ==
    [S EXCEPT !.dirs = {d \in @ : ~(d[2] = person_name /\ DirFiles(S, d) = {})}]

\* update_face_embedding(image_id, embedding)
update_face_embedding(S, image_id, embedding) ==
    [S EXCEPT !.face_images =
       {IF f.id = image_id THEN [f EXCEPT !.embedding = embedding] ELSE f : f \in @}]

\* the mutant of DeleteFaceRow: the references to the row are left as they are
DeleteFaceRowOnly(S, image_id) ==
    [S EXCEPT !.face_images = {f \in @ : f.id # image_id}]

\* DELETE FROM face_images WHERE id = ?, with ON DELETE SET NULL on
\* recognition_history.trained_image_id
DeleteFaceRow(S, image_id) ==
    [S EXCEPT
       !.face_images = {f \in @ : f.id # image_id},
       !.recognition_history =
          {IF h.trained_image_id = image_id
           THEN [h EXCEPT !.trained_image_id = NULL] ELSE h : h \in @}]

\* delete_face_image(image_id)
delete_face_image(S, image_id) ==
    LET found == {f \in S.face_images : f.id = image_id} IN
    IF found = {} THEN {S}
    ELSE LET image == CHOOSE f \in found : TRUE
             person_name == (CHOOSE q \in S.persons : q.id = image.person_id).name
         IN {_cleanup_empty_person_folders(DeleteFaceRow(S1, image_id), person_name) :
               S1 \in RemoveFiles(S, <<image.image_path, image.original_image_path>>)}

\* add_face_image: the INSERT fails when person_id names no person
add_face_image(S, person_id, image_path, embedding, original_image_path) ==
    IF \A p \in S.persons : p.id # person_id THEN Raise(S)
    ELSE LET image_id == S.seq.face_images + 1
         IN Outcome([S EXCEPT
                       !.seq.face_images = image_id,
                       !.face_images = @ \cup
                          {[id |-> image_id, person_id |-> person_id,
                            image_path |-> image_path,
                            original_image_path |-> original_image_path,
                            embedding |-> embedding, created_at |-> S.clock]}],
                    image_id)

\* the mutant of AtQuota: the oldest image is evicted only above the maximum
AboveQuota(face_count, max_images) == face_count > max_images

\* auto_train_face's eviction test
AtQuota(face_count, max_images) == face_count >= max_images

\* auto_train_face after the eviction: save the cropped image, copy the
\* original, insert the row
AutoTrainSave(S0, person_id, person_name, embedding, timestamp, original_image_path) ==
    LET S == MakePersonDirs(S0, person_name)
        face_save_path == <<"detect", person_name, timestamp>>
        original_save_path == <<"original", person_name, timestamp>>
        written == [S EXCEPT !.files = @ \cup {face_save_path}]
        copied == [written EXCEPT !.files = @ \cup {original_save_path}]
        fault == [S EXCEPT !.faultsLeft = @ - 1]
        faultWritten == [written EXCEPT !.faultsLeft = @ - 1]
    IN \* cv2.imwrite returns False
       (IF S.faultsLeft > 0 THEN {Outcome(fault, NULL)} ELSE {})
       \cup
       \* shutil.copy raises: the source is gone, or the copy fails
       (IF S.inbox[original_image_path].kind = "absent"
        THEN {Outcome(S1, NULL) : S1 \in RemoveFile(written, face_save_path)}
        ELSE {add_face_image(copied, person_id, face_save_path, embedding,
                             original_save_path)}
             \cup (IF S.faultsLeft > 0
                   THEN {Outcome(S1, NULL) :
                           S1 \in RemoveFile(faultWritten, face_save_path)}
                   ELSE {}))

\* auto_train_face(person_id, person_name, face_img, embedding, timestamp,
\*                 original_image_path): the id of the new image, or NULL
auto_train_face(S0, person_id, person_name, embedding, timestamp, original_image_path) ==
    LET S == Step(S0, "enroll")
        max_images == NumberSetting(S, "max_images_per_person")
        face_count == get_face_count(S, person_id)
        oldest_image == get_oldest_face_image(S, person_id)
        evicted == IF AtQuota(face_count, max_images) /\ oldest_image # <<>>
                   THEN delete_face_image(S, oldest_image[1].id)
                   ELSE {S}
    IN IF Unparsable(S, "max_images_per_person") THEN {Raise(S)}
       ELSE UNION {AutoTrainSave(S1, person_id, person_name, embedding, timestamp,
                                 original_image_path) : S1 \in evicted}

(***************************************************************************)
(* The history ledger (database.py).                                       *)
(***************************************************************************)
\* a variant of HistoryOlder for ORDER BY timestamp DESC
HistoryYounger(r, q) ==
    \/ r.timestamp > q.timestamp
    \/ r.timestamp = q.timestamp /\ r.id > q.id

\* ORDER BY timestamp ASC on recognition_history: SQLite answers it by a
\* backward scan of idx_recognition_history_timestamp (timestamp DESC, then
\* rowid ascending), so rows of one second come out highest id first
HistoryOlder(r, q) ==
    \/ r.timestamp < q.timestamp
    \/ r.timestamp = q.timestamp /\ r.id > q.id

RECURSIVE HistoryByAge(_)
\* the rows as a list, HistoryOlder(r, q) for every r listed before q
HistoryByAge(rows) ==
    IF rows = {} THEN <<>>
    ELSE LET first == CHOOSE r \in rows : \A q \in rows \ {r} : HistoryOlder(r, q)
         IN <<first>> \o HistoryByAge(rows \ {first})

\* SELECT id, image_path, thumbnail_path ... ORDER BY timestamp ASC LIMIT n
OldRecords(S, n) == Prefix(HistoryByAge(S.recognition_history), n)

\* a variant of OldestIds in which rows of one second come lowest id first
OldestIdsLowestFirst(S, n) ==
    {r.id : r \in {r \in S.recognition_history :
                     Cardinality({q \in S.recognition_history :
                                    \/ q.timestamp < r.timestamp
                                    \/ q.timestamp = r.timestamp /\ q.id < r.id}) < n}}

\* the ids of DELETE ... WHERE id IN (SELECT id ... ORDER BY timestamp ASC LIMIT n)
OldestIds(S, n) == {r.id : r \in Range(Prefix(HistoryByAge(S.recognition_history), n))}

RECURSIVE MediaPaths(_)
\* image and thumbnail of each record of a list, in turn
MediaPaths(records) ==
    IF records = <<>> THEN <<>>
    ELSE <<Head(records).image_path, Head(records).thumbnail_path>>
         \o MediaPaths(Tail(records))

\* a variant of DeleteHistoryRows that keeps a row while one of its files exists
DeleteHistoryRowsFilesGone(S, ids) ==
    [S EXCEPT !.recognition_history =
       {r \in @ : r.id \notin ids \/ {r.image_path, r.thumbnail_path} \cap S.files # {}}]

\* DELETE FROM recognition_history WHERE id IN (the oldest ids)
DeleteHistoryRows(S, ids) ==
    [S EXCEPT !.recognition_history = {r \in @ : r.id \notin ids}]

\* the mutant of OverLimit: the ledger is trimmed one record late
OverLimitLate(count, max_records) == count > max_records + 1

\* the ledger's test for trimming
OverLimit(count, max_records) == count > max_records

\* the foreign keys of a recognition_history row
HistoryKeysValid(S, person_id, trained_image_id) ==
    /\ person_id = NULL \/ \E p \in S.persons : p.id = person_id
    /\ trained_image_id = NULL \/ \E f \in S.face_images : f.id = trained_image_id

\* add_recognition_history(person_id, person_name, nickname, score, image_path,
\*                         thumbnail_path, trained_image_id, bbox_info, max_records)
add_recognition_history(S, person_id, person_name, nickname, score, image_path, thumbnail_path, trained_image_id, max_records) ==
    IF ~HistoryKeysValid(S, person_id, trained_image_id) THEN {Raise(S)}
    ELSE
    LET history_id == S.seq.recognition_history + 1
        inserted ==
          [Step(S, "append") EXCEPT
             !.seq.recognition_history = history_id,
             !.recognition_history = @ \cup
                {[id |-> history_id, person_id |-> person_id,
                  person_name |-> person_name, nickname |-> nickname,
                  score |-> score, image_path |-> image_path,
                  thumbnail_path |-> thumbnail_path, timestamp |-> S.clock,
                  trained_image_id |-> trained_image_id]}]
        count == Cardinality(inserted.recognition_history)
    IN IF OverLimit(count, max_records)
       THEN {Outcome(DeleteHistoryRows(S1, OldestIds(S1, count - max_records)),
                     history_id) :
               S1 \in RemoveFiles(inserted,
                                  MediaPaths(OldRecords(inserted, count - max_records)))}
       ELSE {Outcome(inserted, history_id)}

\* enforce_history_limit(max_records): returns deleted_count
enforce_history_limit(S, max_records) ==
    LET count == Cardinality(S.recognition_history) IN
    IF ~OverLimit(count, max_records) THEN {Outcome(S, 0)}
    ELSE LET records_to_delete == count - max_records
             old_records == OldRecords(S, records_to_delete)
         IN {Outcome(DeleteHistoryRows(S1, OldestIds(S1, records_to_delete)),
                     Len(old_records)) :
               S1 \in RemoveFiles(S, MediaPaths(old_records))}

\* undo_recognition(history_id)
undo_recognition(S, history_id) ==
    LET found == {r \in S.recognition_history : r.id = history_id} IN
    IF found = {} THEN {S}
    ELSE LET record == CHOOSE r \in found : TRUE
             face_img == {f \in S.face_images : f.id = record.trained_image_id}
             untrained ==
               IF record.trained_image_id # NULL
               THEN {DeleteFaceRow(S1, record.trained_image_id) :
                       S1 \in RemoveFiles(S, IF face_img = {} THEN <<>>
                                             ELSE <<(CHOOSE f \in face_img : TRUE).image_path>>)}
               ELSE {S}
         IN UNION {{DeleteHistoryRows(S2, {history_id}) :
                      S2 \in RemoveFiles(S1, <<record.image_path, record.thumbnail_path>>)} :
                   S1 \in untrained}

RECURSIVE HistoryById(_)
\* the rows in rowid order
HistoryById(rows) ==
    IF rows = {} THEN <<>>
    ELSE LET first == CHOOSE r \in rows : \A q \in rows : r.id <= q.id
         IN <<first>> \o HistoryById(rows \ {first})

\* clear_history()
clear_history(S) ==
    {[S1 EXCEPT !.recognition_history = {}] :
       S1 \in RemoveFiles(S, MediaPaths(HistoryById(S.recognition_history)))}

\* the media files save_history_record names with a timestamp
LogPath(timestamp) == <<"logs", "log", timestamp>>
ThumbPath(timestamp) == <<"logs", "thumb", timestamp>>

\* MQTTClient.connect(): without a configured host nothing happens; else a
\* new client is made, and any error on the way is caught
connect(S) == IF S.mqtt.host THEN [S EXCEPT !.mqtt.client = TRUE] ELSE S

\* a variant of PublishFailure that lets the error out
PublishFailureRaised(S) == Raise(S)

\* publish_detection's except clause: the error is logged, False returned
PublishFailure(S) == Outcome(S, FALSE)

\* MQTTClient.publish_detection(name, nickname, score, ...): True when the
\* three messages were handed to the client
publish_detection(S) ==
    LET called == Step([S EXCEPT !.published = @ + 1], "publish")
        ready == IF ~S.mqtt.connected \/ ~S.mqtt.client THEN connect(called)
                 ELSE called
    IN IF ~ready.mqtt.client
       THEN \* self.client is None: the first publish raises AttributeError
            {PublishFailure(ready)}
       ELSE {Outcome([ready EXCEPT !.delivered = @ + 1], TRUE)}
            \cup (IF ready.faultsLeft > 0
                  THEN {PublishFailure([ready EXCEPT !.faultsLeft = @ - 1])}
                  ELSE {})

\* save_history_record(img, timestamp, person_id, name, nickname, score,
\*                     trained_image_id, ...): TRUE when the record was saved
save_history_record(S, timestamp, person_id, name, nickname, score, trained_image_id) ==
    LET history_img_path == LogPath(timestamp)
        thumbnail_path == ThumbPath(timestamp)
        fault == [S EXCEPT !.faultsLeft = @ - 1]
        written == [S EXCEPT !.files = @ \cup {history_img_path}]
        both == [written EXCEPT !.files = @ \cup {thumbnail_path}]
    IN \* cv2.imwrite of the image or of the thumbnail returns False
       (IF S.faultsLeft > 0 THEN {Outcome(fault, FALSE)} ELSE {})
       \cup
       UNION {IF o.exc THEN {o}
              ELSE {[st |-> p.st, ret |-> TRUE, exc |-> p.exc] :
                      p \in publish_detection(o.st)} :
              o \in add_recognition_history(both, person_id, name, nickname, score,
                                            history_img_path, thumbnail_path,
                                            trained_image_id, MaxRecords)}

(***************************************************************************)
(* Identities and the web handlers that add training samples (app.py).     *)
(***************************************************************************)
\* the store with a fresh datetime.now() string drawn for a file name
Stamped(S) == [S EXCEPT !.stamp = @ + 1]

\* files under a person's directories static/detect/<name>, static/original/<name>
PersonFiles(S, person_name) ==
    {f \in S.files : f[1] \in {"detect", "original"} /\ f[2] = person_name}

RECURSIVE FacePaths(_)
\* cropped and original path of each image of a list, in turn
FacePaths(images) ==
    IF images = <<>> THEN <<>>
    ELSE <<Head(images).image_path, Head(images).original_image_path>>
         \o FacePaths(Tail(images))

\* a variant of DeletePersonRows without ON DELETE CASCADE on face_images
DeletePersonRowsNoCascade(S, person_id) ==
    [S EXCEPT !.persons = {q \in @ : q.id # person_id}]

\* delete_person's UPDATE of the history and DELETE of the person, with the
\* cascade to face_images and from there to trained_image_id
DeletePersonRows(S, person_id) ==
    LET gone == {f.id : f \in {g \in S.face_images : g.person_id = person_id}} IN
    [S EXCEPT
       !.recognition_history =
          {LET unlinked == IF r.person_id = person_id
                           THEN [r EXCEPT !.person_id = NULL,
                                          !.person_name = "Unknown",
                                          !.nickname = "",
                                          !.score = Rat(0, 1)]
                           ELSE r
           IN IF unlinked.trained_image_id \in gone
              THEN [unlinked EXCEPT !.trained_image_id = NULL] ELSE unlinked
           : r \in @},
       !.face_images = {f \in @ : f.person_id # person_id},
       !.persons = {q \in @ : q.id # person_id}]

\* shutil.rmtree of the person's two directories inside try/except: the files
\* go, or the call fails and they stay
RemovePersonDirs(S, person_name) ==
    {[S EXCEPT !.files = @ \ PersonFiles(S, person_name),
               !.dirs = {d \in @ : d[2] # person_name}]}
    \cup (IF S.faultsLeft > 0 /\ PersonFiles(S, person_name) # {}
          THEN {[S EXCEPT !.faultsLeft = @ - 1]} ELSE {})

\* Database.delete_person(person_id)
delete_person(S, person_id) ==
    LET person == {q \in S.persons : q.id = person_id}
        images == get_face_images(S, person_id)
    IN UNION {IF person = {} THEN {DeletePersonRows(S1, person_id)}
              ELSE RemovePersonDirs(DeletePersonRows(S1, person_id),
                                    (CHOOSE q \in person : TRUE).name)
              : S1 \in RemoveFiles(S, FacePaths(images))}

\* save_face_image(person_id, person_name, temp_path, face_img, embedding):
\* the uploaded temp file is there to copy
save_face_image(S, person_id, person_name, embedding) ==
    LET timestamp == S.stamp + 1
        face_path == <<"detect", person_name, timestamp>>
        original_path == <<"original", person_name, timestamp>>
        stamped == MakePersonDirs(Stamped(S), person_name)
        copied == [stamped EXCEPT !.files = @ \cup {face_path, original_path}]
        fault == [stamped EXCEPT !.faultsLeft = @ - 1]
    IN \* cv2.imwrite returns False, or shutil.copy raises and the cropped
       \* file is removed again
       (IF S.faultsLeft > 0 THEN {Outcome(fault, NULL)} ELSE {})
       \cup {add_face_image(copied, person_id, face_path, embedding, original_path)}

RECURSIVE SaveFaceImages(_, _, _, _)
\* add_person's loop over the uploaded files that show a face
SaveFaceImages(S, person_id, person_name, embeddings) ==
    IF embeddings = <<>> THEN {S}
    ELSE UNION {SaveFaceImages(o.st, person_id, person_name, Tail(embeddings)) :
                  o \in save_face_image(S, person_id, person_name, Head(embeddings))}

\* files[:10] of add_person
UploadLimit == 10

\* the last counter add_person tries before it gives up
SlugLimit == 100

\* a variant of NameTaken for a store without the UNIQUE constraint
NameTakenNever(S, name) == FALSE

\* get_person_by_name(name) finds a row; also the UNIQUE constraint on
\* persons.name
NameTaken(S, name) == \E q \in S.persons : q.name = name

\* add_person's unique slug: the name, or the name followed by the first
\* counter from 2 on that is free; "" when the handler gives up
UniqueSlug(S, name_slug) ==
    IF ~NameTaken(S, name_slug) THEN name_slug
    ELSE LET free == {c \in 2..(SlugLimit - 1) :
                        ~NameTaken(S, name_slug \o ToString(c))}
         IN IF free = {} THEN ""
            ELSE name_slug \o ToString(CHOOSE c \in free : \A d \in free : c <= d)

\* Database.add_person(name, nickname): the INSERT fails on a taken name
db_add_person(S, name, nickname) ==
    IF NameTaken(S, name) THEN Raise(S)
    ELSE LET person_id == S.seq.persons + 1
         IN Outcome([S EXCEPT !.seq.persons = person_id,
                              !.persons = @ \cup {[id |-> person_id, name |-> name,
                                                   nickname |-> nickname]}],
                    person_id)

\* the handler add_person(name, nickname, images): embeddings are those of the
\* uploaded files in which a face is found
add_person(S, name_slug, nickname, embeddings) ==
    LET unique == UniqueSlug(S, name_slug) IN
    IF unique = "" THEN {Outcome(S, NULL)}
    ELSE LET o == db_add_person(S, unique, nickname)
         IN {Outcome(S1, o.ret) :
               S1 \in SaveFaceImages(o.st, o.ret, unique, Prefix(embeddings, UploadLimit))}

\* the handler add_person_image(person_id, image): a face is found in the image
add_person_image(S, person_id, embedding) ==
    LET person == {q \in S.persons : q.id = person_id}
        max_images == NumberSetting(S, "max_images_per_person")
        current_count == get_face_count(S, person_id)
    IN IF person = {} THEN {Outcome(S, NULL)}
       ELSE IF Unparsable(S, "max_images_per_person") THEN {Outcome(S, NULL)}
       ELSE IF current_count >= max_images THEN {Outcome(S, NULL)}
       ELSE save_face_image(S, person_id, (CHOOSE q \in person : TRUE).name, embedding)

\* the handler add_history_to_person(history_id, person_id | new_person_name):
\* the history image is large enough and shows a face
add_history_to_person(S, history_id, person_id, new_person_name, new_person_nickname, embedding) ==
    LET found == {r \in S.recognition_history : r.id = history_id} IN
    IF found = {} THEN {Outcome(S, NULL)}
    ELSE
    LET record == CHOOSE r \in found : TRUE IN
    IF record.image_path \notin S.files THEN {Outcome(S, NULL)}
    ELSE
    LET created == IF person_id = NULL /\ new_person_name # ""
                   THEN db_add_person(S, new_person_name, new_person_nickname)
                   ELSE Outcome(S, person_id)
    IN IF created.exc THEN {created}
       ELSE IF created.ret = NULL THEN {Outcome(S, NULL)}
       ELSE
       LET S1 == created.st
           person == {q \in S1.persons : q.id = created.ret}
       IN IF person = {} THEN {Outcome(S1, NULL)}
          ELSE
          LET who == CHOOSE q \in person : TRUE
              timestamp == S1.stamp + 1
              face_save_path == <<"detect", who.name, timestamp>>
              original_save_path == <<"original", who.name, timestamp>>
              written == [MakePersonDirs(Stamped(S1), who.name)
                            EXCEPT !.files = @ \cup {face_save_path}]
              copied == [written EXCEPT !.files = @ \cup {original_save_path}]
              added == add_face_image(copied, who.id, face_save_path, embedding,
                                      original_save_path)
              \* the recomputed score is a mean of cosine similarities; the
              \* model records only that the record is rescored
              linked ==
                [added.st EXCEPT !.recognition_history =
                   {IF r.id = history_id
                    THEN [r EXCEPT !.person_id = who.id, !.person_name = who.name,
                                   !.nickname = who.nickname, !.score = Rat(1, 1)]
                    ELSE r : r \in @}]
          IN \* shutil.copy raises after the cropped file was written
             (IF S1.faultsLeft > 0
              THEN {Raise([written EXCEPT !.faultsLeft = @ - 1])} ELSE {})
             \cup {Outcome(linked, who.id)}

\* the smallest and the largest maximum set_max_images accepts
MinMaxImages == 1
MaxMaxImagesAllowed == 100

RECURSIVE DeleteFaceImages(_, _)
\* delete_face_image for each image of a list, in turn
DeleteFaceImages(S, images) ==
    IF images = <<>> THEN {S}
    ELSE UNION {DeleteFaceImages(S1, Tail(images)) :
                  S1 \in delete_face_image(S, Head(images).id)}

RECURSIVE TrimPersons(_, _, _)
\* set_max_images' loop over the persons
TrimPersons(S, person_ids, new_max) ==
    IF person_ids = {} THEN {S}
    ELSE LET person_id == CHOOSE i \in person_ids : TRUE
             face_count == get_face_count(S, person_id)
             trimmed == IF face_count > new_max
                        THEN DeleteFaceImages(S, Prefix(get_face_images(S, person_id),
                                                        face_count - new_max))
                        ELSE {S}
         IN UNION {TrimPersons(S1, person_ids \ {person_id}, new_max) : S1 \in trimmed}

\* the handler set_max_images(new_max): TRUE when the value is accepted
set_max_images(S, new_max) ==
    IF new_max < MinMaxImages \/ new_max > MaxMaxImagesAllowed THEN {Outcome(S, FALSE)}
    ELSE IF Unparsable(S, "max_images_per_person") THEN {Outcome(S, FALSE)}
    ELSE LET old_max == NumberSetting(S, "max_images_per_person")
             updated == [S EXCEPT !.settings.max_images_per_person = new_max,
                                  !.raw.max_images_per_person = "numeric"]
         IN {Outcome(S1, TRUE) :
               S1 \in IF new_max < old_max
                      THEN TrimPersons(updated, {q.id : q \in updated.persons}, new_max)
                      ELSE {updated}}

(***************************************************************************)
(* Maintenance (app.py, database.py) and the inbox (inbox_monitor.py).     *)
(***************************************************************************)
RECURSIVE PathList(_)
\* the files of a set in some listing order
PathList(paths) ==
    IF paths = {} THEN <<>>
    ELSE LET first == CHOOSE f \in paths : TRUE
         IN <<first>> \o PathList(paths \ {first})

\* files that show up in the watched directory
InboxNames == {"x.jpg"}
Absent == [kind |-> "absent", embedding |-> <<>>]
FaceFile(embedding) == [kind |-> "face", embedding |-> embedding]
\* a file that is there but is not recognised: unreadable, oversize or noface
OtherFile(kind) == [kind |-> kind, embedding |-> <<>>]

\* a variant of ValidFiles that leaves the thumbnails out
ValidImagesOnly(S) == {r.image_path : r \in S.recognition_history}

\* valid_files of cleanup_orphan_history_files: the paths the records name
ValidFiles(S) ==
    UNION {{r.image_path, r.thumbnail_path} : r \in S.recognition_history}

\* the files of static/logs that cleanup_orphan_history_files deletes
OrphanFiles(S) == {f \in S.files : f[1] = "logs" /\ f \notin ValidFiles(S)}

\* cleanup_orphan_history_files(): files of static/logs that no record names
cleanup_orphan_history_files(S) == RemoveFiles(S, PathList(OrphanFiles(S)))

\* the files of static/test that cleanup_temp_files deletes: temp_* and test_*
TempFiles(S) == {f \in S.files : f[1] = "test" /\ f[2] \in {"temp", "test"}}

\* cleanup_temp_files(): deleted_count counts a file whether or not
\* _safe_delete_file removed it
cleanup_temp_files(S) ==
    {Outcome(S1, Cardinality(TempFiles(S))) :
       S1 \in RemoveFiles(S, PathList(TempFiles(S)))}

\* the handler cleanup_orphan_files(): the history limit, then the orphan
\* files, then the temp files
cleanup_orphan_files(S) ==
    UNION {UNION {{t.st : t \in cleanup_temp_files(S1)} :
                    S1 \in cleanup_orphan_history_files(o.st)} :
             o \in enforce_history_limit(S, MaxRecords)}

RECURSIVE ClearInbox(_, _, _)
\* the loop of clear_inbox_folder over the listed names: os.remove in
\* try/except, file_count counts the files that went
ClearInbox(S, names, file_count) ==
    IF names = <<>> THEN {Outcome(S, file_count)}
    ELSE LET filename == Head(names)
             removed == [S EXCEPT !.inbox[filename] = Absent]
             fault == [S EXCEPT !.faultsLeft = @ - 1]
         IN IF S.inbox[filename].kind = "absent"
            THEN ClearInbox(S, Tail(names), file_count)
            ELSE ClearInbox(removed, Tail(names), file_count + 1)
                 \cup (IF S.faultsLeft > 0
                       THEN ClearInbox(fault, Tail(names), file_count)
                       ELSE {})

\* clear_inbox_folder()
clear_inbox_folder(S) == ClearInbox(S, PathList(DOMAIN S.inbox), 0)

\* what the four steps of the sweep report
Counts(inbox, temp, limit, orphan) ==
    [inbox |-> inbox, temp |-> temp, limit |-> limit, orphan |-> orphan]

\* the sweep of init_inbox_monitor(): the watched directory, the temp
\* files, the history limit, the orphan files
init_inbox_monitor(S) ==
    UNION {UNION {UNION {{Outcome(S4, Counts(c.ret, t.ret, h.ret,
                                             Cardinality(OrphanFiles(h.st)))) :
                            S4 \in cleanup_orphan_history_files(h.st)} :
                         h \in enforce_history_limit(t.st, MaxRecords)} :
                  t \in cleanup_temp_files(c.st)} :
           c \in clear_inbox_folder(S)}

\* temp_file_cleanup(temp_path) on leaving the block: the file goes, or
\* os.remove fails and the file stays
temp_file_cleanup(S, temp_path) == RemoveFile(S, temp_path)

RECURSIVE EmbeddingRows(_, _)
\* the joined rows of get_all_embeddings for face images in rowid order
EmbeddingRows(S, images) ==
    IF images = {} THEN <<>>
    ELSE LET first == CHOOSE f \in images : \A g \in images : f.id <= g.id
             p == CHOOSE q \in S.persons : q.id = first.person_id
         IN <<[img_id |-> first.id, name |-> p.name, nickname |-> p.nickname,
               embedding |-> first.embedding]>>
            \o EmbeddingRows(S, images \ {first})

\* Database.get_all_embeddings()
get_all_embeddings(S) == EmbeddingRows(S, S.face_images)


\* a variant of _delete_file that leaves the file
DeleteFileSkipped(S, file_path) == {Outcome(S, TRUE)}

\* InboxMonitor._delete_file(file_path): ret is FALSE when os.remove raised,
\* which the method logs and swallows
_delete_file(S0, file_path) ==
    LET S == Step(S0, "delete") IN
    IF S.inbox[file_path].kind = "absent" THEN {Outcome(S0, TRUE)}
    ELSE {Outcome([S EXCEPT !.inbox[file_path] = Absent], TRUE)}
         \cup (IF S.faultsLeft > 0
               THEN {Outcome([S EXCEPT !.faultsLeft = @ - 1], FALSE)} ELSE {})

\* a variant of the except clause that only logs
ExceptLogOnly(S, image_path) == {[Outcome(S, TRUE) EXCEPT !.exc = TRUE]}

\* process_image's except clause
ExceptClause(S, image_path) ==
    {[o EXCEPT !.exc = TRUE] : o \in _delete_file(S, image_path)}

\* a variant of ShouldTrain that does not look at the setting
ShouldTrainAlways(person_id, auto_train_enabled) == person_id # NULL

\* process_image's condition for auto-training: if person_id and auto_train_enabled
ShouldTrain(person_id, auto_train_enabled) == person_id # NULL /\ auto_train_enabled

\* the part of process_image after a face was found: match, auto-train, save
Recognise(S, image_path, embedding) ==
    LET database_embeddings == get_all_embeddings(S)
        found == find_match(embedding, database_embeddings,
                            NumberSetting(S, "recognition_threshold"),
                            NumberSetting(S, "voting_top_k"))
        timestamp == S.stamp + 1
        stamped == Stamped(Step(S, "match"))
        person == {q \in S.persons : q.name = found.name}
        person_id == IF person = {} THEN NULL ELSE (CHOOSE q \in person : TRUE).id
        trained == IF ShouldTrain(person_id, S.settings.auto_train_enabled)
                   THEN auto_train_face(stamped, person_id, found.name, embedding,
                                        timestamp, image_path)
                   ELSE {Outcome(stamped, NULL)}
    IN IF Unparsable(S, "recognition_threshold") \/ Unparsable(S, "voting_top_k")
       THEN {Raise(S)}
       ELSE IF found # NoMatch
       THEN UNION {IF t.exc THEN {t}
                   ELSE save_history_record(t.st, timestamp, person_id, found.name,
                                            found.nickname, found.score, t.ret) :
                   t \in trained}
       ELSE save_history_record(stamped, timestamp, NULL, "Unknown", "",
                                Rat(0, 1), NULL)

\* a variant of process_image that removes the file before it recognises
ProcessImageDeleteFirst(S0, image_path) ==
    LET S == [S0 EXCEPT !.steps = <<"read">>]
        file == S.inbox[image_path] IN
    IF file.kind \notin {"face"} THEN _delete_file(S, image_path)
    ELSE UNION {Recognise(d.st, image_path, file.embedding) :
                  d \in _delete_file(S, image_path)}

\* InboxMonitor.process_image(image_path): ret is FALSE when the removal of
\* the file failed, exc is TRUE when the except clause ran
process_image(S0, image_path) ==
    LET S == [S0 EXCEPT !.steps = <<"read">>]
        file == S.inbox[image_path] IN
    IF file.kind \in {"absent", "unreadable"} THEN _delete_file(S, image_path)
    ELSE IF file.kind = "oversize" THEN _delete_file(S, image_path)
    ELSE IF file.kind = "noface" THEN _delete_file(S, image_path)
    ELSE \* a statement on the database raises
         (IF S.faultsLeft > 0
          THEN ExceptClause([S EXCEPT !.faultsLeft = @ - 1], image_path) ELSE {})
         \cup
         UNION {IF o.exc THEN ExceptClause(o.st, image_path)
                ELSE _delete_file(o.st, image_path) :
                o \in Recognise(S, image_path, file.embedding)}

(***************************************************************************)
(* The watcher (inbox_monitor.py, InboxHandler).  An invocation of         *)
(* on_created in progress is a record [path, pc, first, stable, raised].   *)
(***************************************************************************)
\* what one look at a file gives: os.path.exists, os.path.getsize, and
\* whether getsize raised
Looks == [exists : BOOLEAN, size : 0..MaxSize, error : BOOLEAN]
NoLook == [exists |-> FALSE, size |-> 0, error |-> FALSE]

\* a variant of SameSize that accepts an empty file
SameSizeOrEmpty(initial_size, final_size) == initial_size = final_size

\* _is_file_complete's return expression
SameSize(initial_size, final_size) ==
    initial_size = final_size /\ final_size > 0

\* InboxHandler._is_file_complete(file_path) on the two looks it takes
_is_file_complete(first, second) ==
    IF ~first.exists THEN FALSE
    ELSE IF first.error THEN FALSE
    ELSE IF ~second.exists THEN FALSE
    ELSE IF second.error THEN FALSE
    ELSE SameSize(first.size, second.size)

\* the size of a file of the watched directory: files are dropped whole
FileSize(file) ==
    IF file.kind = "absent" THEN 0 ELSE IF file.kind = "oversize" THEN 2 ELSE 1

\* one look at a file of the watched directory
LookAt(file) ==
    [exists |-> file.kind # "absent", size |-> FileSize(file), error |-> FALSE]

\* the create events the observer may emit: for an image, for a file with
\* another extension and for a directory
CreateEvents ==
    {[src_path |-> "x.jpg", is_directory |-> FALSE],
     [src_path |-> "x.txt", is_directory |-> FALSE],
     [src_path |-> "x.jpg", is_directory |-> TRUE]}

\* on_created's filters on the kind of entry and on the extension
Accepted(event) ==
    ~event.is_directory /\ event.src_path \in InboxNames

\* a variant of InFlight: the membership test always fails
InFlightNever(in_flight, file_path) == FALSE

\* on_created's membership test
InFlight(in_flight, file_path) == file_path \in in_flight

\* a variant of Discard that keeps the path when the callback raised
DiscardOnReturn(in_flight, invocation) ==
    IF invocation.raised THEN in_flight ELSE in_flight \ {invocation.path}

\* on_created's finally clause
Discard(in_flight, invocation) == in_flight \ {invocation.path}

\* a variant of DeliveryFree: events are delivered while one is handled
DeliveryAlways(invocations) == TRUE

\* the observer thread calls the handler for one event at a time and waits
\* for it to return
DeliveryFree(invocations) == invocations = <<>>

\* a list without its i-th element
Without(s, i) == SubSeq(s, 1, i - 1) \o SubSeq(s, i + 1, Len(s))

\* an invocation that has just been entered; probes counts the looks
\* _is_file_complete took at the file, callbacks the calls of the callback
Entered(file_path) ==
    [path |-> file_path, pc |-> "test", first |-> NoLook, stable |-> FALSE,
     raised |-> FALSE, probes |-> 0, callbacks |-> 0]

\* a variant of AfterProbe that skips the callback for an unstable file
AfterProbeStableOnly(stable) == IF stable THEN "callback" ELSE "finally"

\* on_created after _is_file_complete: an unstable file is waited for once
\* more, and the callback is called in either case
AfterProbe(stable) == "callback"

(***************************************************************************)
(* The state.                                                              *)
(***************************************************************************)
VARIABLES
    probe,       \* find_match's test_embedding
    gallery,     \* find_match's database_embeddings
    threshold,   \* find_match's threshold
    top_k,       \* find_match's top_k
    called,      \* whether find_match has returned
    match,       \* what it returned
    store,       \* the relational store and the file store
    last,        \* the operation that ran last and its outcome
    enrolled,    \* the images auto_train_face has inserted, oldest first
    events,      \* create events emitted and not yet delivered to on_created
    processing,  \* InboxHandler.processing, the paths in flight
    handling,    \* the invocations of on_created in progress
    calls        \* per thread, the database operation sequence in progress

matchVars == <<probe, gallery, threshold, top_k, called, match>>
storeVars == <<store, last, enrolled>>
watchVars == <<events, processing, handling, calls>>
vars == <<matchVars, storeVars, watchVars>>

(***************************************************************************)
(* Initial stores.                                                         *)
(***************************************************************************)
\* the settings init_db inserts
DefaultSettings ==
    [max_images_per_person |-> 10, auto_train_enabled |-> TRUE,
     recognition_threshold |-> Rat(3, 10), voting_top_k |-> 3]

\* the store after Database() on a fresh database file
\* retrain_progress as app.py initialises it
IdleProgress ==
    [is_running |-> FALSE, current |-> 0, total |-> 0, current_person |-> "",
     status |-> "idle"]

EmptyStore ==
    [persons |-> {}, face_images |-> {}, recognition_history |-> {},
     settings |-> DefaultSettings, raw |-> [key \in SettingKeys |-> "numeric"],
     seq |-> [persons |-> 0, face_images |-> 0, recognition_history |-> 0],
     files |-> {}, inbox |-> [n \in InboxNames |-> Absent],
     clock |-> 0, stamp |-> 0, published |-> 0, delivered |-> 0,
     mqtt |-> [host |-> FALSE, client |-> FALSE, connected |-> FALSE],
     faultsLeft |-> 0, steps |-> <<>>, dirs |-> {},
     retrain_progress |-> IdleProgress]

NoOp == [op |-> "none", arg |-> NULL, ret |-> NULL, exc |-> FALSE]

\* a store with both persons added (add_person without images), a maximum
\* configured and a file with a face waiting in the watched directory, or
\* already gone from it
EnrolmentStores ==
    {[EmptyStore EXCEPT
        !.persons = {[id |-> 1, name |-> "a", nickname |-> "A"],
                     [id |-> 2, name |-> "b", nickname |-> "B"]},
        !.seq.persons = 2,
        !.settings.max_images_per_person = m,
        !.inbox = [n \in InboxNames |-> file],
        !.faultsLeft = MaxFaults] :
       m \in 1..MaxMaxImages, file \in {FaceFile(<<1, 1>>), Absent}}

MatchIdle ==
    /\ probe = <<>>
    /\ gallery = <<>>
    /\ threshold = Rat(0, 1)
    /\ top_k = 1
    /\ called = FALSE
    /\ match = NoMatch

\* the handler InboxMonitor.start() schedules, before any event
\* the threads that call the database: the observer's thread, on which
\* process_image runs, and two request threads of the web server
Threads == {"watcher", "web1", "web2"}

\* a thread's sequence of database operations in progress: the handler, the
\* position in it, and what it has read so far (for retrain_all: the persons
\* and the current person's images still to visit, and retrained_count +
\* skipped_count)
NoCall ==
    [op |-> "none", pc |-> "idle", person_id |-> 0, max_images |-> 0,
     face_count |-> 0, oldest |-> 0, persons |-> {}, images |-> <<>>, done |-> 0]

WatchIdle ==
    /\ events = <<>>
    /\ processing = {}
    /\ handling = <<>>
    /\ calls = [t \in Threads |-> NoCall]

StoreIdle ==
    /\ store = EmptyStore
    /\ last = NoOp
    /\ enrolled = <<>>
    /\ WatchIdle

(***************************************************************************)
(* SpecMatch: find_match on drawn inputs.                                  *)
(***************************************************************************)
InitMatch ==
    /\ probe \in Probes
    /\ gallery \in Galleries
    /\ threshold \in Thresholds
    /\ top_k \in TopKs
    /\ called = FALSE
    /\ match = NoMatch
    /\ StoreIdle

\* one call of find_match on the drawn inputs
FindMatch ==
    /\ ~called
    /\ called' = TRUE
    /\ match' = find_match(probe, gallery, threshold, top_k)
    /\ UNCHANGED <<probe, gallery, threshold, top_k, storeVars, watchVars>>

NextMatch == FindMatch

SpecMatch == InitMatch /\ [][NextMatch]_vars

(***************************************************************************)
(* Actions on the store.                                                   *)
(***************************************************************************)
\* a second passes
Tick ==
    /\ store.clock < MaxClock
    /\ store' = [store EXCEPT !.clock = @ + 1]
    /\ UNCHANGED <<last, enrolled, matchVars, watchVars>>

\* auto_train_face is called for an existing person with a file of the
\* watched directory as the original image
AutoTrainFace(p, src) ==
    /\ store.seq.face_images < MaxEnrolments
    /\ store.stamp < MaxStamp
    /\ \E o \in auto_train_face(Stamped(store), p.id, p.name,
                                store.inbox[src].embedding, store.stamp + 1, src) :
         /\ store' = o.st
         /\ last' = [op |-> "auto_train_face", arg |-> p.id, ret |-> o.ret,
                     exc |-> o.exc]
         /\ enrolled' = IF o.ret # NULL
                        THEN Append(enrolled, [id |-> o.ret, person_id |-> p.id])
                        ELSE enrolled
    /\ UNCHANGED <<matchVars, watchVars>>

\* save_history_record is called for an unknown face
SaveUnknown ==
    /\ store.seq.recognition_history < MaxHistory
    /\ \E o \in save_history_record(Stamped(store), store.stamp + 1, NULL,
                                    "Unknown", "", Rat(0, 1), NULL) :
         /\ store' = o.st
         /\ last' = [op |-> "save_history_record", arg |-> store.stamp + 1,
                     ret |-> IF o.ret THEN store.seq.recognition_history + 1
                             ELSE NULL,
                     exc |-> o.exc]
    /\ UNCHANGED <<enrolled, matchVars, watchVars>>

\* save_history_record is called for a matched identity that was not trained
SaveMatched(p) ==
    /\ store.seq.recognition_history < MaxHistory
    /\ \E o \in save_history_record(Stamped(store), store.stamp + 1, p.id, p.name,
                                    p.nickname, Rat(1, 1), NULL) :
         /\ store' = o.st
         /\ last' = [op |-> "save_history_record", arg |-> store.stamp + 1,
                     ret |-> IF o.ret THEN store.seq.recognition_history + 1
                             ELSE NULL,
                     exc |-> o.exc]
    /\ UNCHANGED <<enrolled, matchVars, watchVars>>

\* what the last operation was and what it returned
Did(op, arg, o) == [op |-> op, arg |-> arg, ret |-> o.ret, exc |-> o.exc]
Done(op, arg) == [op |-> op, arg |-> arg, ret |-> NULL, exc |-> FALSE]

\* the enrolment log after a step that may have auto-trained one image
Enrolled(S) ==
    IF S.seq.face_images > store.seq.face_images
       /\ \E f \in S.face_images : f.id = S.seq.face_images
    THEN Append(enrolled,
                [id |-> S.seq.face_images,
                 person_id |-> (CHOOSE f \in S.face_images :
                                  f.id = S.seq.face_images).person_id])
    ELSE enrolled

\* POST /person/add with the images that show a face
AddPerson(name, embeddings) ==
    /\ store.seq.persons < MaxPersons
    /\ store.seq.face_images + Len(embeddings) <= MaxFaceImages
    /\ \E o \in add_person(store, name, Nickname(name), embeddings) :
         /\ store' = o.st
         /\ last' = Did("add_person", NULL, o)
    /\ UNCHANGED <<enrolled, matchVars, watchVars>>

\* POST /person/add without images
AddPersonNamed(name) ==
    /\ store.seq.persons < MaxNames
    /\ \E o \in add_person(store, name, Nickname(name), <<>>) :
         /\ store' = o.st
         /\ last' = [op |-> "add_person", arg |-> name, ret |-> o.ret, exc |-> o.exc]
    /\ UNCHANGED <<enrolled, matchVars, watchVars>>

\* POST /person/<id>/add_image with an image that shows a face
AddPersonImage(person_id, embedding) ==
    /\ store.seq.face_images < MaxFaceImages
    /\ \E o \in add_person_image(store, person_id, embedding) :
         /\ store' = o.st
         /\ last' = Did("add_person_image", person_id, o)
    /\ UNCHANGED <<enrolled, matchVars, watchVars>>

\* POST /history/<id>/add_to_person for an existing or a new person
AddHistoryToPerson(history_id, person_id, new_person_name, embedding) ==
    /\ store.seq.face_images < MaxFaceImages
    /\ person_id = NULL => store.seq.persons < MaxPersons
    /\ \E o \in add_history_to_person(store, history_id, person_id, new_person_name,
                                      Nickname(new_person_name), embedding) :
         /\ store' = o.st
         /\ last' = Did("add_history_to_person", history_id, o)
    /\ UNCHANGED <<enrolled, matchVars, watchVars>>

\* POST /settings/max_images
SetMaxImages(new_max) ==
    /\ \E o \in set_max_images(store, new_max) :
         /\ store' = o.st
         /\ last' = Did("set_max_images", new_max, o)
    /\ UNCHANGED <<enrolled, matchVars, watchVars>>

\* POST /person/<id>/delete
DeletePerson(person_id) ==
    /\ store' \in delete_person(store, person_id)
    /\ last' = Done("delete_person", person_id)
    /\ UNCHANGED <<enrolled, matchVars, watchVars>>

\* POST /person/<person_id>/delete_image/<image_id>
DeletePersonImage(image_id) ==
    /\ store' \in delete_face_image(store, image_id)
    /\ last' = Done("delete_face_image", image_id)
    /\ UNCHANGED <<enrolled, matchVars, watchVars>>

\* Database.enforce_history_limit(max_records) called on its own
EnforceHistoryLimit(max_records) ==
    /\ \E o \in enforce_history_limit(store, max_records) :
         /\ store' = o.st
         /\ last' = Did("enforce_history_limit", max_records, o)
    /\ UNCHANGED <<enrolled, matchVars, watchVars>>

\* POST /history/<id>/undo
UndoRecognition(history_id) ==
    /\ store' \in undo_recognition(store, history_id)
    /\ last' = Done("undo_recognition", history_id)
    /\ UNCHANGED <<enrolled, matchVars, watchVars>>

\* POST /settings/clear_history
ClearHistory ==
    /\ store.recognition_history # {}
    /\ store' \in clear_history(store)
    /\ last' = Done("clear_history", NULL)
    /\ UNCHANGED <<enrolled, matchVars, watchVars>>

\* POST /settings/cleanup_orphan_files
CleanupOrphanFiles ==
    /\ store' \in cleanup_orphan_files(store)
    /\ last' = Done("cleanup_orphan_files", NULL)
    /\ UNCHANGED <<enrolled, matchVars, watchVars>>

\* POST /test/recognize: the upload is saved as static/test/test_<ts>.jpg
\* and removed again when the answer is ready
TestRecognize ==
    /\ store.stamp < MaxStamp
    /\ LET temp_path == <<"test", "test", store.stamp + 1>>
           saved == [Stamped(store) EXCEPT !.files = @ \cup {temp_path}]
       IN store' \in temp_file_cleanup(saved, temp_path)
    /\ last' = Done("test_recognize", NULL)
    /\ UNCHANGED <<enrolled, matchVars, watchVars>>

\* the program starts: init_inbox_monitor() runs the sweep
InitInboxMonitor ==
    /\ \E o \in init_inbox_monitor(store) :
         /\ store' = o.st
         /\ last' = [op |-> "init_inbox_monitor",
                     arg |-> [failed |-> store.faultsLeft - o.st.faultsLeft,
                              previous |-> IF last.op = "init_inbox_monitor"
                                           THEN <<[ret |-> last.ret,
                                                   failed |-> last.arg.failed]>>
                                           ELSE <<>>],
                     ret |-> o.ret, exc |-> FALSE]
    /\ UNCHANGED <<enrolled, matchVars, watchVars>>

\* POST /settings/save with one numeric setting: the text is stored as sent
SaveSettings(key, kind, value) ==
    /\ store' = [store EXCEPT !.raw[key] = kind,
                              !.settings[key] = IF kind = "numeric" THEN value ELSE @]
    /\ last' = Done("save_settings", NULL)
    /\ UNCHANGED <<enrolled, matchVars, watchVars>>

\* POST /settings/save with an mqtt_host: init_mqtt() configures the client
\* and connects
InitMqtt ==
    /\ store' = connect([store EXCEPT !.mqtt.host = TRUE])
    /\ last' = Done("init_mqtt", NULL)
    /\ UNCHANGED <<enrolled, matchVars, watchVars>>

\* the client's network loop calls _on_connect (rc = 0) or _on_disconnect
OnConnection(connected) ==
    /\ store.mqtt.client
    /\ store' = [store EXCEPT !.mqtt.connected = connected]
    /\ last' = Done("on_connection", NULL)
    /\ UNCHANGED <<enrolled, matchVars, watchVars>>

\* a camera drops a file into the watched directory
CreateFile(name, file) ==
    /\ store.inbox[name].kind = "absent"
    /\ store' = [store EXCEPT !.inbox[name] = file]
    /\ last' = Done("create", name)
    /\ UNCHANGED <<enrolled, matchVars, watchVars>>

\* POST /settings/toggle_auto_train
ToggleAutoTrain(enabled) ==
    /\ store' = [store EXCEPT !.settings.auto_train_enabled = enabled]
    /\ last' = Done("toggle_auto_train", enabled)
    /\ UNCHANGED <<enrolled, matchVars, watchVars>>

\* the watcher calls process_image for a created file
ProcessImage(image_path) ==
    /\ store.seq.face_images < MaxFaceImages
    /\ store.seq.recognition_history < MaxHistory
    /\ \E o \in process_image(store, image_path) :
         /\ store' = [o.st EXCEPT !.steps = <<>>]
         /\ last' = [op |-> "process_image", arg |-> image_path, ret |-> o.ret,
                     exc |-> o.exc, seen |-> store.inbox[image_path].kind,
                     steps |-> o.st.steps]
         /\ enrolled' = Enrolled(o.st)
    /\ UNCHANGED <<matchVars, watchVars>>

(***************************************************************************)
(* Actions of the watcher.                                                 *)
(***************************************************************************)
\* the observer emits a create event
Emit(event) ==
    /\ Len(events) < MaxEvents
    /\ events' = Append(events, event)
    /\ UNCHANGED <<processing, handling, storeVars, matchVars, calls>>

\* the observer thread delivers the oldest event: on_created is entered and
\* returns at once for a directory or another extension
Deliver ==
    /\ events # <<>>
    /\ DeliveryFree(handling)
    /\ events' = Tail(events)
    /\ handling' = IF Accepted(Head(events))
                   THEN Append(handling, Entered(Head(events).src_path))
                   ELSE handling
    /\ UNCHANGED <<processing, storeVars, matchVars, calls>>

\* on_created, line 30: a path in flight is rejected
TestInFlight(i) ==
    /\ handling[i].pc = "test"
    /\ handling' = IF InFlight(processing, handling[i].path)
                   THEN Without(handling, i)
                   ELSE [handling EXCEPT ![i].pc = "add"]
    /\ UNCHANGED <<events, processing, storeVars, matchVars, calls>>

\* on_created, line 34
AddInFlight(i) ==
    /\ handling[i].pc = "add"
    /\ processing' = processing \cup {handling[i].path}
    /\ handling' = [handling EXCEPT ![i].pc = "probe"]
    /\ UNCHANGED <<events, storeVars, matchVars, calls>>

\* after the first sleep: _is_file_complete takes its first look
FirstProbe(i) ==
    /\ handling[i].pc = "probe"
    /\ handling' = [handling EXCEPT
                      ![i].first = LookAt(store.inbox[handling[i].path]),
                      ![i].probes = @ + 1,
                      ![i].pc = "probe2"]
    /\ UNCHANGED <<events, processing, storeVars, matchVars, calls>>

\* _is_file_complete takes its second look and returns; on_created waits
\* once more for an unstable file and then invokes the callback
SecondProbe(i) ==
    /\ handling[i].pc = "probe2"
    /\ LET stable == _is_file_complete(handling[i].first,
                                       LookAt(store.inbox[handling[i].path]))
       IN handling' = [handling EXCEPT
                         ![i].stable = stable,
                         ![i].probes = IF handling[i].first.exists
                                          /\ ~handling[i].first.error
                                       THEN @ + 1 ELSE @,
                         ![i].pc = AfterProbe(stable)]
    /\ UNCHANGED <<events, processing, storeVars, matchVars, calls>>

\* the callback, process_image, returns
CallbackReturns(i) ==
    /\ handling[i].pc = "callback"
    /\ store.seq.face_images < MaxFaceImages
    /\ store.seq.recognition_history < MaxHistory
    /\ \E o \in process_image(store, handling[i].path) :
         /\ store' = [o.st EXCEPT !.steps = <<>>]
         /\ last' = Did("process_image", handling[i].path, o)
         /\ enrolled' = Enrolled(o.st)
    /\ handling' = [handling EXCEPT ![i].pc = "finally", ![i].callbacks = @ + 1]
    /\ UNCHANGED <<events, processing, matchVars, calls>>

\* the callback raises: on_created's except clause logs the error
CallbackRaises(i) ==
    /\ handling[i].pc = "callback"
    /\ store.faultsLeft > 0
    /\ store' = [store EXCEPT !.faultsLeft = @ - 1]
    /\ handling' = [handling EXCEPT ![i].pc = "finally", ![i].raised = TRUE,
                                    ![i].callbacks = @ + 1]
    /\ UNCHANGED <<events, processing, last, enrolled, matchVars, calls>>

\* on_created's finally clause, and on_created returns
Finally(i) ==
    /\ handling[i].pc = "finally"
    /\ processing' = Discard(processing, handling[i])
    /\ handling' = Without(handling, i)
    /\ last' = [op |-> "on_created", arg |-> handling[i].path, ret |-> NULL,
                exc |-> handling[i].raised, stable |-> handling[i].stable,
                probes |-> handling[i].probes, callbacks |-> handling[i].callbacks]
    /\ UNCHANGED <<events, store, enrolled, matchVars, calls>>

\* the direct call of _is_file_complete on two looks
StabilityCheck(first, second) ==
    /\ last' = [op |-> "_is_file_complete", arg |-> <<first, second>>,
                ret |-> _is_file_complete(first, second), exc |-> FALSE]
    /\ UNCHANGED <<store, enrolled, matchVars, watchVars>>

(***************************************************************************)
(* SpecQuota: enrollments only, from identities without samples and a      *)
(* fixed maximum.                                                          *)
(***************************************************************************)
InitQuota ==
    /\ MatchIdle
    /\ store \in EnrolmentStores
    /\ last = NoOp
    /\ enrolled = <<>>
    /\ WatchIdle

NextQuota ==
    \/ \E p \in store.persons, src \in InboxNames : AutoTrainFace(p, src)
    \/ Tick

SpecQuota == InitQuota /\ [][NextQuota]_vars

(***************************************************************************)
(* SpecIngest: files arrive in the watched directory and are processed,    *)
(* from a store with one trained identity.                                 *)
(***************************************************************************)
\* the inputs the handlers are called with
PersonIds == 1..MaxPersons
HistoryIdsDrawn == 1..MaxHistory
UploadedFaces == {<<0, 1>>}
SeenFaces == {FaceFile(<<1, 1>>)}

\* what a camera may drop
DroppedFiles ==
    {OtherFile(k) : k \in {"unreadable", "oversize", "noface"}}
    \cup {FaceFile(e) : e \in {<<1, 1>>, <<1, 0>>}}

\* the stores after add_person("a") with one image and add_person("b") with
\* none, for each maximum
IngestStores ==
    UNION {{[ob.st EXCEPT !.settings.max_images_per_person = m,
                          !.faultsLeft = MaxFaults] :
              ob \in add_person(oa.st, "b", Nickname("b"), <<>>)} :
           oa \in add_person(EmptyStore, "a", Nickname("a"), <<<<0, 1>>>>),
           m \in 1..MaxMaxImages}

InitIngest ==
    /\ MatchIdle
    /\ store \in IngestStores
    /\ last = NoOp
    /\ enrolled = <<>>
    /\ WatchIdle

NextIngest ==
    \/ \E name \in InboxNames, file \in DroppedFiles : CreateFile(name, file)
    \/ \E name \in InboxNames : ProcessImage(name)
    \/ Tick

SpecIngest == InitIngest /\ [][NextIngest]_vars

(***************************************************************************)
(* SpecLedger: appends to the history ledger only, for unknown faces and   *)
(* for matched identities, without I/O faults.                             *)
(***************************************************************************)
\* the stores after add_person("a") and add_person("b") without images
LedgerStores ==
    UNION {{ob.st : ob \in add_person(oa.st, "b", Nickname("b"), <<>>)} :
           oa \in add_person(EmptyStore, "a", Nickname("a"), <<>>)}

InitLedger ==
    /\ MatchIdle
    /\ store \in LedgerStores
    /\ last = NoOp
    /\ enrolled = <<>>
    /\ WatchIdle

NextLedger ==
    \/ SaveUnknown
    \/ \E p \in store.persons : SaveMatched(p)
    \/ Tick

SpecLedger == InitLedger /\ [][NextLedger]_vars

(***************************************************************************)
(* SpecLimit: the ledger filled by appends and trimmed by the maintenance  *)
(* operation with any ceiling.                                             *)
(***************************************************************************)
NextLimit ==
    \/ SaveUnknown
    \/ \E p \in store.persons : SaveMatched(p)
    \/ \E max_records \in 0..MaxRecords : EnforceHistoryLimit(max_records)
    \/ Tick

SpecLimit == InitLedger /\ [][NextLimit]_vars

(***************************************************************************)
(* SpecHistory: everything that adds to or removes from the history        *)
(* ledger: the watcher, undo, clear, deletion of an identity and the       *)
(* maintenance sweep.                                                      *)
(***************************************************************************)
InitHistory ==
    /\ MatchIdle
    /\ store \in IngestStores
    /\ last = NoOp
    /\ enrolled = <<>>
    /\ WatchIdle

NextHistory ==
    \/ \E name \in InboxNames, file \in SeenFaces : CreateFile(name, file)
    \/ \E name \in InboxNames : ProcessImage(name)
    \/ \E h \in HistoryIdsDrawn : UndoRecognition(h)
    \/ ClearHistory
    \/ \E p \in PersonIds : DeletePerson(p)
    \/ \E f \in store.face_images : DeletePersonImage(f.id)
    \/ CleanupOrphanFiles
    \/ Tick

SpecHistory == InitHistory /\ [][NextHistory]_vars

(***************************************************************************)
(* SpecSweep: the start-up sweep among ingestions, undos and test uploads,  *)
(* with I/O faults.                                                        *)
(***************************************************************************)
InitSweep ==
    /\ MatchIdle
    /\ store \in IngestStores
    /\ last = NoOp
    /\ enrolled = <<>>
    /\ WatchIdle

NextSweep ==
    \/ \E name \in InboxNames, file \in SeenFaces : CreateFile(name, file)
    \/ \E name \in InboxNames : ProcessImage(name)
    \/ \E h \in HistoryIdsDrawn : UndoRecognition(h)
    \/ TestRecognize
    \/ InitInboxMonitor
    \/ Tick

SpecSweep == InitSweep /\ [][NextSweep]_vars

(***************************************************************************)
(* SpecSettings: ingestion while the numeric settings are overwritten      *)
(* through the settings form, without I/O faults.                          *)
(***************************************************************************)
\* the numbers the settings form sends for a setting
SentNumbers(key) ==
    IF key = "recognition_threshold" THEN {Rat(3, 10)}
    ELSE IF key = "voting_top_k" THEN {MaxTopK}
    ELSE {MaxMaxImages}

\* an ingestion while file-name timestamps are left
ProcessImageStamped(name) == store.stamp < MaxStamp /\ ProcessImage(name)

InitSettings ==
    /\ MatchIdle
    /\ store \in {[S EXCEPT !.faultsLeft = 0] : S \in IngestStores}
    /\ last = NoOp
    /\ enrolled = <<>>
    /\ WatchIdle

NextSettings ==
    \/ \E key \in SettingKeys, kind \in RawKinds :
         \E value \in SentNumbers(key) : SaveSettings(key, kind, value)
    \/ \E name \in InboxNames, file \in SeenFaces : CreateFile(name, file)
    \/ \E name \in InboxNames : ProcessImageStamped(name)

SpecSettings == InitSettings /\ [][NextSettings]_vars

(***************************************************************************)
(* SpecPublish: ingestion while the publisher is unconfigured, connecting, *)
(* connected or disconnected, with I/O faults.                             *)
(***************************************************************************)
InitPublish ==
    /\ MatchIdle
    /\ store \in IngestStores
    /\ last = NoOp
    /\ enrolled = <<>>
    /\ WatchIdle

NextPublish ==
    \/ InitMqtt
    \/ \E connected \in BOOLEAN : OnConnection(connected)
    \/ \E name \in InboxNames, file \in SeenFaces : CreateFile(name, file)
    \/ \E name \in InboxNames : ProcessImageStamped(name)

SpecPublish == InitPublish /\ [][NextPublish]_vars

(***************************************************************************)
(* SpecNames: identities are created by name, from the form and from a     *)
(* history record, and deleted.                                           *)
(***************************************************************************)
\* names typed into the forms: a slug, and a slug that looks suffixed
TypedNames == {"a", "a2"}

\* the stores after one ingestion of an unknown face into an empty store
NameStores ==
    {o.st : o \in save_history_record(Stamped(EmptyStore), 1, NULL, "Unknown", "",
                                      Rat(0, 1), NULL)}

InitNames ==
    /\ MatchIdle
    /\ store \in NameStores
    /\ last = NoOp
    /\ enrolled = <<>>
    /\ WatchIdle

NextNames ==
    \/ \E name \in TypedNames : AddPersonNamed(name)
    \/ \E h \in HistoryIdsDrawn, name \in TypedNames, e \in UploadedFaces :
         AddHistoryToPerson(h, NULL, name, e)
    \/ \E p \in 1..MaxNames : DeletePerson(p)

SpecNames == InitNames /\ [][NextNames]_vars

(***************************************************************************)
(* SpecSamples: everything that adds training samples or changes the       *)
(* maximum: the web handlers and the watcher's auto-training.              *)
(***************************************************************************)
InitSamples ==
    /\ MatchIdle
    /\ store = EmptyStore
    /\ last = NoOp
    /\ enrolled = <<>>
    /\ WatchIdle

NextSamples ==
    \/ \E name \in PersonNames, embeddings \in SeqsUpTo(UploadedFaces, 2) :
         AddPerson(name, embeddings)
    \/ \E p \in PersonIds, e \in UploadedFaces : AddPersonImage(p, e)
    \/ \E h \in HistoryIdsDrawn, p \in PersonIds, e \in UploadedFaces :
         AddHistoryToPerson(h, p, "", e)
    \/ \E h \in HistoryIdsDrawn, name \in PersonNames, e \in UploadedFaces :
         AddHistoryToPerson(h, NULL, name, e)
    \/ \E m \in 0..MaxMaxImages : SetMaxImages(m)
    \/ \E name \in InboxNames, file \in SeenFaces : CreateFile(name, file)
    \/ \E name \in InboxNames : ProcessImage(name)
    \/ Tick

SpecSamples == InitSamples /\ [][NextSamples]_vars

(***************************************************************************)
(* SpecWatch: create events are emitted, delivered and handled while files *)
(* are dropped into the watched directory.                                 *)
(***************************************************************************)
InitWatch ==
    /\ MatchIdle
    /\ store \in IngestStores
    /\ last = NoOp
    /\ enrolled = <<>>
    /\ WatchIdle

NextWatch ==
    \/ \E name \in InboxNames, file \in SeenFaces : CreateFile(name, file)
    \/ \E event \in CreateEvents : Emit(event)
    \/ Deliver
    \/ \E i \in DOMAIN handling : TestInFlight(i)
    \/ \E i \in DOMAIN handling : AddInFlight(i)
    \/ \E i \in DOMAIN handling : FirstProbe(i)
    \/ \E i \in DOMAIN handling : SecondProbe(i)
    \/ \E i \in DOMAIN handling : CallbackReturns(i)
    \/ \E i \in DOMAIN handling : CallbackRaises(i)
    \/ \E i \in DOMAIN handling : Finally(i)

SpecWatch == InitWatch /\ [][NextWatch]_vars

(***************************************************************************)
(* SpecStable: _is_file_complete on drawn looks.                           *)
(***************************************************************************)
InitStable ==
    /\ MatchIdle
    /\ StoreIdle

NextStable == \E first, second \in Looks : StabilityCheck(first, second)

SpecStable == InitStable /\ [][NextStable]_vars

(***************************************************************************)
(* Spec: the web handlers, the maintenance sweep and the watcher on one    *)
(* store, from a fresh database.                                           *)
(***************************************************************************)
Init ==
    /\ MatchIdle
    /\ store = EmptyStore
    /\ last = NoOp
    /\ enrolled = <<>>
    /\ WatchIdle

Next ==
    \/ \E name \in PersonNames, embeddings \in SeqsUpTo(UploadedFaces, 2) :
         AddPerson(name, embeddings)
    \/ \E p \in PersonIds, e \in UploadedFaces : AddPersonImage(p, e)
    \/ \E h \in HistoryIdsDrawn, p \in PersonIds, e \in UploadedFaces :
         AddHistoryToPerson(h, p, "", e)
    \/ \E h \in HistoryIdsDrawn, name \in PersonNames, e \in UploadedFaces :
         AddHistoryToPerson(h, NULL, name, e)
    \/ \E m \in 0..MaxMaxImages : SetMaxImages(m)
    \/ \E p \in PersonIds : DeletePerson(p)
    \/ \E h \in HistoryIdsDrawn : UndoRecognition(h)
    \/ ClearHistory
    \/ CleanupOrphanFiles
    \/ \E name \in InboxNames, file \in SeenFaces : CreateFile(name, file)
    \/ \E name \in InboxNames : ProcessImage(name)
    \/ Tick

Spec == Init /\ [][Next]_vars

(***************************************************************************)
(* What the matcher is expected to compute, stated over sets of gallery    *)
(* rows instead of sorted lists.                                           *)
(***************************************************************************)
\* rows of the gallery whose embedding has the probe's size
Compatible == {i \in 1..Len(gallery) : Len(gallery[i].embedding) = Len(probe)}
Mismatched == (1..Len(gallery)) \ Compatible

\* the dimension-compatible samples of an identity
SamplesOf(name) == {i \in Compatible : gallery[i].name = name}

\* identities with at least one compatible sample
Candidates == {gallery[i].name : i \in Compatible}

\* single-sample similarity of row i
Similarity == [i \in 1..Len(gallery) |-> Dot(probe, gallery[i].embedding)]

\* the k-element sets of an identity's samples that hold its k highest scores
TopSets(name, k) ==
    {T \in SUBSET SamplesOf(name) :
        /\ Cardinality(T) = k
        /\ \A i \in T, j \in SamplesOf(name) \ T : Similarity[i] >= Similarity[j]}

MaxSimilarity(name) ==
    CHOOSE m \in {Similarity[i] : i \in SamplesOf(name)} :
        \A i \in SamplesOf(name) : Similarity[i] <= m

\* the mean of exactly the top_k highest similarities of an identity
TopKMean(name) ==
    Rat(SumSet(Similarity, CHOOSE T \in TopSets(name, top_k) : TRUE), top_k)

\* the final (hybrid) score of a candidate identity
FinalScore(name) ==
    IF Cardinality(SamplesOf(name)) >= top_k THEN TopKMean(name)
    ELSE Rat(MaxSimilarity(name), 1)

Matched == called /\ match # NoMatch

\* C1: find_match returns no match or a score strictly greater than the
\* threshold; when the best final score over all identities equals the
\* threshold, it returns no match.
C1_ScoreAboveThreshold ==
    called =>
      /\ match = NoMatch \/ RatGt(match.score, threshold)
      /\ ( /\ \E n \in Candidates : RatEq(FinalScore(n), threshold)
           /\ \A n \in Candidates : ~RatGt(FinalScore(n), threshold) )
         => match = NoMatch

\* an identity scores exactly the threshold, none scores more, and nothing is
\* returned
C1_Witness ==
    /\ called
    /\ match = NoMatch
    /\ \E n \in Candidates : RatEq(FinalScore(n), threshold)

\* C2: a returned identity with at least top_k compatible samples carries the
\* arithmetic mean of exactly its top_k highest single-sample similarities.
C2_TopKMean ==
    (Matched /\ Cardinality(SamplesOf(match.name)) >= top_k)
      => RatEq(match.score, TopKMean(match.name))

\* the returned identity has more than top_k samples, of different scores
C2_Witness ==
    /\ Matched
    /\ top_k >= 2
    /\ Cardinality(SamplesOf(match.name)) > top_k
    /\ \E i, j \in SamplesOf(match.name) : Similarity[i] # Similarity[j]

\* C3: a returned identity with fewer than top_k compatible samples carries
\* the maximum single-sample similarity among its samples.
C3_BestSingle ==
    (Matched /\ Cardinality(SamplesOf(match.name)) < top_k)
      => RatEq(match.score, Rat(MaxSimilarity(match.name), 1))

\* the returned identity has two samples of different scores, fewer than top_k
C3_Witness ==
    /\ Matched
    /\ Cardinality(SamplesOf(match.name)) < top_k
    /\ \E i, j \in SamplesOf(match.name) : Similarity[i] # Similarity[j]

\* C4: a match is returned iff some identity's final score strictly exceeds the
\* threshold, and the returned identity's final score is maximal over all
\* identities of the gallery.
C4_MaximalFinalScore ==
    called =>
      /\ (match # NoMatch) <=> (\E n \in Candidates : RatGt(FinalScore(n), threshold))
      /\ match # NoMatch =>
           /\ match.name \in Candidates
           /\ RatEq(match.score, FinalScore(match.name))
           /\ \A n \in Candidates : ~RatGt(FinalScore(n), match.score)

\* two identities score above the threshold, the second-listed one lower than
\* the first, and one is returned
C4_Witness ==
    /\ Matched
    /\ \E n \in Candidates :
         /\ RatGt(FinalScore(n), threshold)
         /\ RatGt(match.score, FinalScore(n))
         /\ \E i \in SamplesOf(match.name) : \A j \in SamplesOf(n) : i < j

\* the gallery without its mismatched-dimension rows
CompatibleGallery ==
    SelectSeq(gallery, LAMBDA row : Len(row.embedding) = Len(probe))

\* C5: find_match on the gallery returns what it returns on the gallery with
\* every mismatched-dimension row removed: such rows contribute no score and
\* do not count toward an identity's sample count.
C5_MismatchIgnored ==
    called => match = find_match(probe, CompatibleGallery, threshold, top_k)

\* the returned identity owns a mismatched row that, if counted, would have
\* moved it to the top-K branch
C5_Witness ==
    /\ Matched
    /\ \E i \in Mismatched : gallery[i].name = match.name
    /\ Cardinality(SamplesOf(match.name)) < top_k
    /\ Cardinality({i \in 1..Len(gallery) : gallery[i].name = match.name}) >= top_k

(***************************************************************************)
(* Quota of training images.                                               *)
(***************************************************************************)
ImagesOf(person_id) == {f \in store.face_images : f.person_id = person_id}

\* the ids auto_train_face has inserted for a person, oldest first
EnrolledFor(person_id) ==
    SelectSeq(enrolled, LAMBDA e : e.person_id = person_id)

\* the last n elements of a list
Newest(s, n) == SubSeq(s, Len(s) - n + 1, Len(s))

MaxImages == store.settings.max_images_per_person

\* C6: starting without samples and with a fixed maximum M, once more than M
\* enrollments of an identity have succeeded, a successful enrollment leaves
\* exactly M samples, and they are the M most recently created ones: every
\* sample that is gone is older than every sample kept.
C6_QuotaKeepsNewest ==
    \A p \in store.persons :
      ( /\ last.op = "auto_train_face" /\ last.arg = p.id /\ last.ret # NULL
        /\ Len(EnrolledFor(p.id)) > MaxImages )
      => /\ Cardinality(ImagesOf(p.id)) = MaxImages
         /\ {f.id : f \in ImagesOf(p.id)}
              = {e.id : e \in Range(Newest(EnrolledFor(p.id), MaxImages))}

\* an identity has been enrolled at least two times more than the maximum, while
\* the other identity holds samples too
C6_Witness ==
    \E p, q \in store.persons :
      /\ p # q
      /\ last.op = "auto_train_face" /\ last.arg = p.id /\ last.ret # NULL
      /\ Len(EnrolledFor(p.id)) >= MaxImages + 2
      /\ ImagesOf(q.id) # {}

(***************************************************************************)
(* The history ledger.                                                     *)
(***************************************************************************)
HistoryIds == {r.id : r \in store.recognition_history}
Appended == store.seq.recognition_history
HistoryMedia ==
    UNION {{r.image_path, r.thumbnail_path} : r \in store.recognition_history}
LogFiles == {f \in store.files : f[1] = "logs"}

\* C8 as claimed: once more than MaxRecords records have been appended, exactly
\* MaxRecords remain, they are the most recently appended ones (also when
\* records share a timestamp), and no media file of an evicted record is left.
C8_LedgerKeepsNewest ==
    Appended > MaxRecords =>
      /\ Cardinality(HistoryIds) = MaxRecords
      /\ HistoryIds = (Appended - MaxRecords + 1)..Appended
      /\ LogFiles \subseteq HistoryMedia

\* C7: in every reachable state each identity's training-sample count is at
\* or below the currently configured maximum, whatever sample-adding
\* operations and changes of the maximum came before.
C7_SamplesWithinMax ==
    \A p \in store.persons :
       get_face_count(store, p.id) <= store.settings.max_images_per_person

(***************************************************************************)
(* C9: the ledger's ceiling as an invariant.                               *)
(***************************************************************************)
\* C9: in every reachable state between operations the number of history
\* records does not exceed the ceiling; in particular it holds right after
\* every append.
C9_HistoryWithinCeiling ==
    Cardinality(store.recognition_history) <= MaxRecords

\* the watcher has just appended a record to a full ledger, which is still
\* at the ceiling
C9_Witness ==
    /\ last.op = "process_image"
    /\ store.seq.recognition_history > MaxRecords
    /\ \E r \in store.recognition_history : r.id = store.seq.recognition_history
    /\ Cardinality(store.recognition_history) = MaxRecords

(***************************************************************************)
(* C10: the watched file is gone when process_image returns.               *)
(***************************************************************************)
\* C10: whenever process_image has returned and the removal of the file did
\* not fail, the source file no longer exists in the watched directory, on
\* every exit path.
C10_SourceFileDeleted ==
    (last.op = "process_image" /\ last.ret = TRUE)
       => store.inbox[last.arg].kind = "absent"

\* process_image has returned through its except clause and the file, which
\* showed a face, is gone
C10_Witness ==
    /\ last.op = "process_image"
    /\ last.exc
    /\ last.ret = TRUE
    /\ store.inbox[last.arg].kind = "absent"

(***************************************************************************)
(* C11, C12: the in-flight set of the watcher.                             *)
(***************************************************************************)
\* the invocations of on_created that have added their path and not yet
\* returned
Holding(file_path) ==
    {i \in DOMAIN handling :
       /\ handling[i].path = file_path
       /\ handling[i].pc \in {"probe", "probe2", "callback", "finally"}}

\* C11: a path is in the in-flight set only while an invocation of on_created
\* that added it has not yet returned, whether its callback returned or
\* raised; hence the set is empty whenever no event is being handled.
C11_InFlightReleased ==
    /\ \A file_path \in processing : Holding(file_path) # {}
    /\ handling = <<>> => processing = {}

\* on_created has returned after its callback raised, and nothing is in flight
C11_Witness ==
    /\ last.op = "on_created"
    /\ last.exc
    /\ handling = <<>>
    /\ processing = {}

\* the invocations whose callback is in progress for a path
Running(file_path) ==
    {i \in DOMAIN handling :
       handling[i].path = file_path /\ handling[i].pc = "callback"}

C13_FaceIngestionRecorded ==
    [][\A name \in InboxNames :
         (store.inbox[name].kind = "face" /\ ProcessImage(name))
            => /\ store'.seq.recognition_history = store.seq.recognition_history + 1
               /\ store'.published = store.published + 1]_vars

(***************************************************************************)
(* C14: a failed enrollment leaves nothing behind.                         *)
(***************************************************************************)
\* the faults a call of auto_train_face meets when nothing but the save
\* itself fails: none when the original is gone, else one
SaveFaults(src) == IF store.inbox[src].kind = "absent" THEN 0 ELSE 1

\* C14: when auto_train_face returns failure because the cropped file could
\* not be written or the original could not be copied, and nothing else
\* failed, no file and no row has been created: a cropped file written
\* before the failed copy is removed again.
C14_FailedEnrollmentLeavesNothing ==
    [][\A p \in store.persons, src \in InboxNames :
         ( /\ AutoTrainFace(p, src)
           /\ last'.ret = NULL
           /\ store.faultsLeft - store'.faultsLeft <= SaveFaults(src) )
         => /\ store'.seq.face_images = store.seq.face_images
            /\ store'.face_images \subseteq store.face_images
            /\ store'.files \subseteq store.files]_vars

\* auto_train_face has returned failure because the original was gone when
\* it was to be copied, without an I/O fault, and no file carries its timestamp
C14_Witness ==
    /\ last.op = "auto_train_face"
    /\ last.ret = NULL
    /\ store.faultsLeft = MaxFaults
    /\ store.stamp > 0
    /\ \A f \in store.files : f[3] # store.stamp

(***************************************************************************)
(* C15: undo of a history record.                                          *)
(***************************************************************************)
\* the training sample a history record points back to, as a set
SampleOf(record) == {f \in store.face_images : f.id = record.trained_image_id}

\* C15: after the undo of record h, with no file removal failing, the row of
\* h and its image and thumbnail are gone, and if h pointed back to a
\* training sample s, the row of s and both media files of s (the cropped
\* image and the stored original) are gone.
C15_UndoRemovesAllMedia ==
    [][\A record \in store.recognition_history :
         ( /\ store'.faultsLeft = store.faultsLeft
           /\ UndoRecognition(record.id) )
         => /\ \A r \in store'.recognition_history : r.id # record.id
            /\ {record.image_path, record.thumbnail_path} \cap store'.files = {}
            /\ \A s \in SampleOf(record) :
                 /\ s \notin store'.face_images
                 /\ s.image_path \notin store'.files
                 /\ s.original_image_path \notin store'.files]_vars

(***************************************************************************)
(* C16: deleting an identity keeps the history.                            *)
(***************************************************************************)
\* the history records that refer to a person
RecordsOf(person_id) == {r \in store.recognition_history : r.person_id = person_id}

\* C16: deleting an identity deletes no history record: every record that
\* referred to the identity still exists afterwards, with a null identity
\* reference and the same denormalized name and nickname as before.
C16_DeletePersonKeepsHistoryNames ==
    [][\A p \in store.persons :
         DeletePerson(p.id)
         => \A r \in RecordsOf(p.id) :
              \E q \in store'.recognition_history :
                 /\ q.id = r.id
                 /\ q.person_id = NULL
                 /\ q.person_name = r.person_name
                 /\ q.nickname = r.nickname]_vars

(***************************************************************************)
(* C17: history records outlive the training samples they point back to.   *)
(***************************************************************************)
\* every non-null back-reference of a history record names an existing sample
BackReferencesValid(S) ==
    \A r \in S.recognition_history :
       r.trained_image_id # NULL
          => \E f \in S.face_images : f.id = r.trained_image_id

\* the step deletes the record itself: its undo, the clearing of the ledger,
\* or the trimming of the ledger after an append, which deletes records that
\* are older than every record it keeps
DeletesRecord(r) ==
    \/ last'.op = "clear_history"
    \/ last'.op = "undo_recognition" /\ last'.arg = r.id
    \/ /\ last'.op = "process_image"
       /\ store'.seq.recognition_history > store.seq.recognition_history
       /\ \A q \in store'.recognition_history : HistoryOlder(r, q)

\* C17: in every reachable state each non-null back-reference of a history
\* record names an existing training sample, and a step that deletes a
\* training sample (explicit delete, quota eviction, identity deletion, undo
\* of another record) keeps every record that pointed back to it, with a
\* null back-reference, unless the same step deletes the record in its own
\* right.
C17_SampleDeletionKeepsHistory ==
    /\ []BackReferencesValid(store)
    /\ [][\A r \in store.recognition_history :
            ( /\ r.trained_image_id # NULL
              /\ \A f \in store'.face_images : f.id # r.trained_image_id
              /\ ~DeletesRecord(r) )
            => \E q \in store'.recognition_history :
                  q.id = r.id /\ q.trained_image_id = NULL]_vars

\* a sample enrolled by the watcher has been deleted through the web handler
\* and a record of a recognised person is left without back-reference
C17_Witness ==
    /\ last.op = "delete_face_image"
    /\ \E k \in DOMAIN enrolled : enrolled[k].id = last.arg
    /\ \A f \in store.face_images : f.id # last.arg
    /\ store.faultsLeft = MaxFaults
    /\ \E r \in store.recognition_history :
          r.person_id # NULL /\ r.trained_image_id = NULL

(***************************************************************************)
(* C18: the stability check.                                               *)
(***************************************************************************)
\* a look that found the file and read its size
Seen(look) == look.exists /\ ~look.error

\* C18: the stability check answers true exactly when the file is found and
\* its size read at both looks, the two sizes are equal and the size is
\* positive; a changed size, an empty file, a file that disappears between
\* the looks and an error at either look all give false.
C18_StableIffSameNonZeroSize ==
    last.op = "_is_file_complete"
       => LET first == last.arg[1]
              second == last.arg[2]
          IN last.ret <=> /\ Seen(first)
                          /\ Seen(second)
                          /\ first.size = second.size
                          /\ second.size > 0

\* the check has refused a file that was found twice, empty both times
C18_Witness ==
    /\ last.op = "_is_file_complete"
    /\ Seen(last.arg[1]) /\ Seen(last.arg[2])
    /\ last.arg[1].size = 0 /\ last.arg[2].size = 0
    /\ ~last.ret

(***************************************************************************)
(* C19: the sweep run twice in a row.                                      *)
(***************************************************************************)
NothingDeleted == Counts(0, 0, 0, 0)

Referenced(S) ==
    UNION {{r.image_path, r.thumbnail_path} : r \in S.recognition_history}

\* the files of the history-media directory static/logs
HistoryMediaFiles(S) == {f \in S.files : f[1] = "logs"}

\* C20: after a sweep in which no file removal failed, every file of the
\* history-media directory is named as image or thumbnail by some history
\* record, and no file that a history record names has been deleted.
C20_OrphanSweepExact ==
    [][( /\ last'.op = "init_inbox_monitor"
         /\ store'.faultsLeft = store.faultsLeft
         /\ InitInboxMonitor )
       => /\ HistoryMediaFiles(store') \subseteq Referenced(store')
          /\ Referenced(store') \cap store.files \subseteq store'.files]_vars

\* a sweep without a failed removal has deleted an orphan file and left the
\* files of a history record in place
C20_Witness ==
    /\ last.op = "init_inbox_monitor"
    /\ last.arg.failed = 0
    /\ last.ret.orphan > 0
    /\ \E r \in store.recognition_history :
          {r.image_path, r.thumbnail_path} \subseteq store.files

(***************************************************************************)
(* C21: missing or invalid settings.                                       *)
(***************************************************************************)
\* some numeric setting is empty or holds a text that is not a number
SettingsDefective == \E key \in SettingKeys : store.raw[key] # "numeric"

\* C21: with the threshold, top-K or quota setting empty or not numeric, an
\* ingestion of a file with a face falls back to the defaults and completes
\* normally: the except clause does not run and the history record is
\* appended.
C21_DefectiveSettingsFallBack ==
    [][\A name \in InboxNames :
         ( /\ store.inbox[name].kind = "face"
           /\ SettingsDefective
           /\ last'.op = "process_image"
           /\ ProcessImage(name) )
         => /\ ~last'.exc
            /\ store'.seq.recognition_history = store.seq.recognition_history + 1]_vars

(***************************************************************************)
(* C22: files that are abandoned.                                          *)
(***************************************************************************)
\* what process_image finds wrong with a file before it looks for a match
Defects == {"unreadable", "oversize", "noface"}

\* C22: when the ingested file is unreadable, oversized or shows no face,
\* process_image returns without running its except clause, appends no
\* history record, creates no training sample and no media file and
\* publishes nothing; the source file is gone unless its removal failed.
C22_DefectiveFileAbandoned ==
    [][\A name \in InboxNames :
         ( /\ store.inbox[name].kind \in Defects
           /\ last'.op = "process_image"
           /\ ProcessImage(name) )
         => /\ ~last'.exc
            /\ store'.recognition_history = store.recognition_history
            /\ store'.face_images = store.face_images
            /\ store'.seq = store.seq
            /\ store'.files = store.files
            /\ store'.published = store.published
            /\ last'.ret => store'.inbox[name].kind = "absent"]_vars

\* process_image has returned for an oversized file, which is gone
C22_Witness ==
    /\ last.op = "process_image"
    /\ last.seen = "oversize"
    /\ last.ret
    /\ store.inbox[last.arg].kind = "absent"

(***************************************************************************)
(* C23: a failed publish.                                                  *)
(***************************************************************************)
\* the step called publish_detection and it did not return True
PublishFailed ==
    /\ store'.published = store.published + 1
    /\ store'.delivered = store.delivered

NamesUnique == \A p, q \in store.persons : p.name = q.name => p.id = q.id

\* the names of the identities of a store
Names(S) == {q.name : q \in S.persons}

\* the name under which slug s is stored when the names in taken are in use:
\* s itself when it is free, else s followed by n, the smallest integer from
\* 2 on for which s followed by n is free
StoredAs(s, name, taken) ==
    \/ s \notin taken /\ name = s
    \/ /\ s \in taken
       /\ \E n \in 2..(MaxNames + 2) :
            /\ name = s \o ToString(n)
            /\ name \notin taken
            /\ \A m \in 2..(n - 1) : (s \o ToString(m)) \in taken

\* C24: no two identities share a name; an identity created through the form
\* for slug s is stored under s or, when s is taken, under s followed by the
\* smallest integer n >= 2 for which that name is unused; every step creates
\* at most one identity, under a name unused before, or none.
C24_NamesUniqueWithSuffix ==
    /\ []NamesUnique
    /\ [][/\ \/ store'.persons \subseteq store.persons
             \/ \E q \in store'.persons :
                   /\ store'.persons \ store.persons = {q}
                   /\ q.name \notin Names(store)
          /\ (last'.op = "add_person" /\ store'.seq.persons > store.seq.persons)
                => \E q \in store'.persons \ store.persons :
                      StoredAs(last'.arg, q.name, Names(store))]_vars

\* the form has stored slug "a" under "a3" because "a" and "a2" were taken
C24_Witness ==
    /\ last.op = "add_person"
    /\ last.arg = "a"
    /\ \E q \in store.persons : q.id = last.ret /\ q.name = "a3"
    /\ {"a", "a2"} \subseteq Names(store)

(***************************************************************************)
(* C25: enforce_history_limit as a maintenance operation.                  *)
(***************************************************************************)
Min(a, b) == IF a < b THEN a ELSE b

\* C25: enforce_history_limit(max) on a ledger of count records leaves
\* min(count, max) of them, none of which is older than a removed one,
\* returns the number of rows removed, which is max(0, count - max), and
\* leaves the store and the files as they are when count <= max.
C25_EnforceLimitKeepsMostRecent ==
    [][\A max_records \in 0..MaxRecords :
         ( /\ last'.op = "enforce_history_limit"
           /\ EnforceHistoryLimit(max_records) )
         => LET before == store.recognition_history
                after == store'.recognition_history
                count == Cardinality(before)
            IN /\ after \subseteq before
               /\ Cardinality(after) = Min(count, max_records)
               /\ \A kept \in after, removed \in before \ after :
                     kept.timestamp >= removed.timestamp
               /\ last'.ret = Cardinality(before \ after)
               /\ last'.ret = count - Min(count, max_records)
               /\ count <= max_records => store' = store]_vars

\* the operation has removed the older of two records of different seconds
C25_Witness ==
    /\ last.op = "enforce_history_limit"
    /\ last.arg = 1
    /\ last.ret = 1
    /\ \E r \in store.recognition_history :
          r.timestamp > 0 /\ r.image_path \in store.files

(***************************************************************************)
(* C26: within one ingestion the steps come in the order match,            *)
(* enrollment (if any), history append, publish, removal of the source     *)
(* file: the file is there when the enrollment copies it and is not        *)
(* removed before the record was appended and the publish attempted.       *)
(***************************************************************************)
StepRank(step) ==
    CASE step = "read" -> 0
      [] step = "match" -> 1
      [] step = "enroll" -> 2
      [] step = "append" -> 3
      [] step = "publish" -> 4
      [] step = "delete" -> 5

\* C26: the steps of every process_image call are in the order read, match,
\* enroll, append, publish, delete, each at most once; an enrollment is of a
\* file that was there, an append is followed by a publish attempt, and the
\* removal of the file is the last step
C26_IngestionStepsInOrder ==
    last.op = "process_image" =>
        LET steps == last.steps
            taken == Range(steps)
        IN /\ \A i, j \in 1..Len(steps) : i < j => StepRank(steps[i]) < StepRank(steps[j])
           /\ "enroll" \in taken => "match" \in taken /\ last.seen = "face"
           /\ "append" \in taken => "match" \in taken /\ "publish" \in taken
           /\ last.seen # "absent" => steps[Len(steps)] = "delete"

C26_Witness ==
    /\ last.op = "process_image"
    /\ last.steps = <<"read", "match", "enroll", "append", "publish", "delete">>
    /\ last.ret = TRUE
    /\ \E r \in store.recognition_history :
         /\ r.trained_image_id # NULL
         /\ \E f \in store.face_images :
              f.id = r.trained_image_id /\ f.original_image_path \in store.files

(***************************************************************************)
(* SpecEnrol: SpecIngest with the auto-train switch of the settings page.  *)
(***************************************************************************)
NextEnrol ==
    \/ \E name \in InboxNames, file \in DroppedFiles : CreateFile(name, file)
    \/ \E name \in InboxNames : ProcessImage(name)
    \/ \E enabled \in BOOLEAN : ToggleAutoTrain(enabled)
    \/ Tick

SpecEnrol == InitIngest /\ [][NextEnrol]_vars

(***************************************************************************)
(* C27: an ingestion creates a training sample only when a match was       *)
(* found, the matched identity exists and auto-train is on; otherwise the  *)
(* samples are unchanged and the appended record has no back-reference;    *)
(* when the enrollment succeeds the record refers to the new sample.       *)
(***************************************************************************)
\* what process_image's find_match call returns for the file
Found(S, file) ==
    IF file.kind # "face" THEN NoMatch
    ELSE find_match(file.embedding, get_all_embeddings(S),
                    NumberSetting(S, "recognition_threshold"),
                    NumberSetting(S, "voting_top_k"))

\* C27: on every process_image call, a face image is created only if
\* find_match found a person who exists and auto_train_enabled is set;
\* without these the face images are unchanged; the appended record's
\* trained_image_id is the id of the created image, and NULL when none was
\* created
C27_EnrolOnlyWhenMatchedAndEnabled ==
    [][\A name \in InboxNames :
         ( /\ last'.op = "process_image"
           /\ ProcessImage(name) )
         => LET found == Found(store, store.inbox[name])
                eligible == /\ found # NoMatch
                            /\ \E p \in store.persons : p.name = found.name
                            /\ store.settings.auto_train_enabled
                created == {f \in store'.face_images : f.id > store.seq.face_images}
                appended == {r \in store'.recognition_history :
                               r.id > store.seq.recognition_history}
            IN /\ created # {} => eligible /\ Cardinality(created) = 1
               /\ ~eligible => store'.face_images = store.face_images
               /\ \A r \in appended :
                    IF created = {} THEN r.trained_image_id = NULL
                    ELSE \E f \in created :
                           r.trained_image_id = f.id /\ r.person_id = f.person_id]_vars

\* an ingestion with auto-train off left a matched record without a
\* back-reference, after an earlier one had enrolled
C27_Witness ==
    /\ last.op = "process_image"
    /\ ~store.settings.auto_train_enabled
    /\ \E r \in store.recognition_history :
         /\ r.id = store.seq.recognition_history
         /\ r.person_id # NULL
         /\ r.trained_image_id = NULL
    /\ \E r \in store.recognition_history, f \in store.face_images :
         r.trained_image_id = f.id

\* the invocations for a path at a position
At(file_path, pc) ==
    {i \in DOMAIN handling : handling[i].path = file_path /\ handling[i].pc = pc}

\* the position on_created reaches next from a position (inbox_monitor.py:30-47)
NextPosition(pc) ==
    CASE pc = "test" -> "add"
      [] pc = "add" -> "probe"
      [] pc = "probe" -> "probe2"
      [] pc = "probe2" -> "callback"
      [] pc = "callback" -> "finally"
      [] pc = "finally" -> "returned"

(***************************************************************************)
(* C28: a callback that raises does not stop the watcher, and a later      *)
(* create event for the same path invokes the callback again.              *)
(***************************************************************************)
\* C28: an invocation whose callback raised is in its finally clause and
\* can return; when it returns nothing is being handled and its path is not
\* in flight; and once on_created has returned after a raise for a path, an
\* invocation entered for that path passes the in-flight test, after which
\* every step takes it one position further towards the callback
C28_RaisedCallbackIsRetried ==
    /\ [](\A i \in DOMAIN handling :
            handling[i].raised => handling[i].pc = "finally" /\ ENABLED Finally(i))
    /\ [](\A i \in DOMAIN handling :
            /\ handling[i].pc = "add" => ENABLED AddInFlight(i)
            /\ handling[i].pc = "probe" => ENABLED FirstProbe(i)
            /\ handling[i].pc = "probe2" => ENABLED SecondProbe(i))
    /\ [][\A i \in DOMAIN handling :
            /\ (handling[i].raised /\ handling' # handling)
                  => /\ handling' = <<>>
                     /\ handling[i].path \notin processing'
                     /\ last'.op = "on_created" /\ last'.exc
            /\ ( /\ last.op = "on_created"
                 /\ last.exc
                 /\ handling[i].path = last.arg
                 /\ handling[i].pc = "test"
                 /\ handling' # handling )
                  => (Len(handling') = Len(handling) /\ handling'[i].pc = "add")]_vars

\* after on_created returned from a callback that raised for the path, the
\* callback is in progress for the same path again
C28_Witness ==
    /\ last.op = "on_created"
    /\ last.exc
    /\ At(last.arg, "callback") # {}

(***************************************************************************)
(* C29: at most two stability probes, then exactly one callback.           *)
(***************************************************************************)
\* C29: an invocation of on_created that passed the in-flight test looks at
\* the file at most twice, has not called the callback before the probes
\* are over, moves from the second probe to the callback whatever
\* _is_file_complete returned, and has called the callback exactly once
\* when it returns
C29_TwoProbesOneCallback ==
    /\ [](\A i \in DOMAIN handling :
            /\ handling[i].probes <= 2
            /\ handling[i].pc \in {"test", "add", "probe", "probe2", "callback"}
                  => handling[i].callbacks = 0
            /\ handling[i].pc = "finally" => handling[i].callbacks = 1)
    /\ [](last.op = "on_created" => last.probes <= 2 /\ last.callbacks = 1)
    /\ [][\A i \in DOMAIN handling :
            (handling[i].pc \in {"add", "probe", "probe2", "callback"}
               /\ handling' # handling)
            => /\ Len(handling') = Len(handling)
               /\ handling'[i].pc = NextPosition(handling[i].pc)]_vars

\* on_created has returned for a file that was reported unstable after one
\* look, having called the callback once
C29_Witness ==
    /\ last.op = "on_created"
    /\ ~last.stable
    /\ last.probes = 1
    /\ last.callbacks = 1
    /\ ~last.exc

(***************************************************************************)
(* C30: ties between identities go to the one met first in the gallery.    *)
(***************************************************************************)
\* the identities whose final score exceeds the threshold and is not
\* exceeded by any other identity's
TopScorers ==
    {n \in Candidates :
       /\ RatGt(FinalScore(n), threshold)
       /\ \A m \in Candidates : ~RatGt(FinalScore(m), FinalScore(n))}

\* C30: when one or more identities reach the maximal final score above the
\* threshold, find_match returns the one of them whose first compatible row
\* comes before the first compatible row of every other one
C30_FirstEncounteredWinsTies ==
    (called /\ TopScorers # {}) =>
        /\ match.name \in TopScorers
        /\ \A n \in TopScorers \ {match.name} :
             \E i \in SamplesOf(match.name) : \A j \in SamplesOf(n) : i < j

\* two identities tie at the top; "b" is returned, whose first row precedes
\* those of "a" while its last one does not
C30_Witness ==
    /\ called
    /\ Cardinality(TopScorers) >= 2
    /\ match.name = "b"
    /\ \E i \in SamplesOf("a"), j \in SamplesOf("b") : i < j

(***************************************************************************)
(* SpecOwnership: every way a training sample is destroyed (deletion of    *)
(* the image, quota eviction during auto-training, undo of a history       *)
(* record, deletion of the identity), from a store in which both           *)
(* identities have a sample, with file removals that may fail.             *)
(***************************************************************************)
\* file removals that may fail in one behaviour
MaxRemovalFaults == 2

\* the stores after add_person("a") and add_person("b"), each with one image
OwnershipStores ==
    UNION {{[ob.st EXCEPT !.settings.max_images_per_person = m,
                          !.faultsLeft = MaxRemovalFaults] :
              ob \in add_person(oa.st, "b", Nickname("b"), <<<<1, 0>>>>)} :
           oa \in add_person(EmptyStore, "a", Nickname("a"), <<<<0, 1>>>>),
           m \in 1..MaxMaxImages}

InitOwnership ==
    /\ MatchIdle
    /\ store \in OwnershipStores
    /\ last = NoOp
    /\ enrolled = <<>>
    /\ WatchIdle

NextOwnership ==
    \/ \E name \in InboxNames, file \in SeenFaces : CreateFile(name, file)
    \/ \E name \in InboxNames : ProcessImageStamped(name)
    \/ \E h \in HistoryIdsDrawn : UndoRecognition(h)
    \/ \E p \in PersonIds : DeletePerson(p)
    \/ \E f \in store.face_images : DeletePersonImage(f.id)

SpecOwnership == InitOwnership /\ [][NextOwnership]_vars

(***************************************************************************)
(* C31: delete_person removes the identity's samples and their files and   *)
(* leaves the other identities' alone.                                     *)
(***************************************************************************)
\* the face images of a person in a store
SamplesIn(S, person_id) == {f \in S.face_images : f.person_id = person_id}

\* the stored files of a set of face images
SampleFiles(images) ==
    {f.image_path : f \in images} \cup {f.original_image_path : f \in images}

\* what C31 says of a delete_person(person_id) step
PersonGone(person_id) ==
    /\ SamplesIn(store', person_id) = {}
    /\ SampleFiles(SamplesIn(store, person_id)) \cap store'.files = {}
    /\ \A q \in PersonIds \ {person_id} :
         /\ SamplesIn(store', q) = SamplesIn(store, q)
         /\ SampleFiles(SamplesIn(store, q)) \cap store'.files
              = SampleFiles(SamplesIn(store, q)) \cap store.files

OwnerName(S, image) == (CHOOSE q \in S.persons : q.id = image.person_id).name

\* C32 as claimed: after every step that deletes a face image row (deletion
\* of the image, quota eviction, undo of a history record, deletion of the
\* person), neither directory of the person it belonged to exists without a
\* file in it.
C32_NoEmptyPersonDirectory ==
    [][\A f \in store.face_images :
         (\A g \in store'.face_images : g.id # f.id)
         => \A d \in store'.dirs :
              d[2] = OwnerName(store, f) => DirFiles(store', d) # {}]_vars

\* a history record was undone without any failure, its sample is gone and
\* the person's directory of cropped images exists with no file in it
C32_UndoLeavesEmptyDirectory ==
    /\ last.op = "undo_recognition"
    /\ store.faultsLeft = MaxRemovalFaults
    /\ <<"detect", "a">> \in store.dirs
    /\ DirFiles(store, <<"detect", "a">>) = {}

(***************************************************************************)
(* SpecEvict: SpecLimit with file removals that may fail.                  *)
(***************************************************************************)
EvictStores == {[S EXCEPT !.faultsLeft = MaxRemovalFaults] : S \in LedgerStores}

InitEvict ==
    /\ MatchIdle
    /\ store \in EvictStores
    /\ last = NoOp
    /\ enrolled = <<>>
    /\ WatchIdle

SpecEvict == InitEvict /\ [][NextLimit]_vars

(***************************************************************************)
(* C33: a failed removal of a media file does not stop the eviction.       *)
(***************************************************************************)
\* the history records of the state that the step removes
Evicted == {r \in store.recognition_history :
              \A q \in store'.recognition_history : q.id # r.id}

\* C33: on every append and every enforce_history_limit call, whatever file
\* removal fails, the records number at most the ceiling afterwards (the
\* append's ceiling, or the call's max_records), and of the media files of
\* the removed records no more are left than removals failed, so the
\* removal of a record's row and of the other files went on.
C33_EvictionSurvivesRemovalFailure ==
    [][/\ last'.op = "save_history_record"
          => Cardinality(store'.recognition_history) <= MaxRecords
       /\ last'.op = "enforce_history_limit"
          => Cardinality(store'.recognition_history)
               <= (IF last'.arg < Cardinality(store.recognition_history)
                   THEN last'.arg ELSE Cardinality(store.recognition_history))
       /\ last'.op \in {"save_history_record", "enforce_history_limit"}
          => Cardinality(UNION {{r.image_path, r.thumbnail_path} : r \in Evicted}
                         \cap store'.files)
               <= store.faultsLeft - store'.faultsLeft]_vars

\* enforce_history_limit(0) has removed two records although the removal of
\* one of their files failed: no record is left, one media file is
C33_Witness ==
    /\ last.op = "enforce_history_limit"
    /\ last.arg = 0
    /\ last.ret = 2
    /\ store.recognition_history = {}
    /\ Cardinality({f \in store.files : f[1] = "logs"}) = 1

(***************************************************************************)
(* SpecRace: the observer's thread enrolls samples while request threads   *)
(* add images.  No lock is taken anywhere and every database call is a     *)
(* transaction of its own, so the threads interleave between the calls.    *)
(***************************************************************************)
WebThreads == Threads \ {"watcher"}

\* the call record of a thread that has read the maximum and the count
Began(op, person_id, max_images, face_count, pc) ==
    [op |-> op, pc |-> pc, person_id |-> person_id, max_images |-> max_images,
     face_count |-> face_count, oldest |-> NULL, persons |-> {}, images |-> <<>>,
     done |-> 0]

NameOf(S, person_id) == (CHOOSE q \in S.persons : q.id = person_id).name

\* auto_train_face reads the maximum and the identity's sample count
EnrolBegin(t, p) ==
    /\ t = "watcher"
    /\ calls[t].pc = "idle"
    /\ ~Unparsable(store, "max_images_per_person")
    /\ LET max_images == NumberSetting(store, "max_images_per_person")
           face_count == get_face_count(store, p.id)
       IN calls' = [calls EXCEPT ![t] =
                      Began("auto_train_face", p.id, max_images, face_count,
                            IF AtQuota(face_count, max_images) THEN "oldest" ELSE "save")]
    /\ UNCHANGED <<storeVars, matchVars, events, processing, handling>>

\* auto_train_face at the maximum: get_oldest_face_image(person_id)
EnrolOldest(t) ==
    /\ calls[t].pc = "oldest"
    /\ LET oldest_image == get_oldest_face_image(store, calls[t].person_id)
       IN calls' = IF oldest_image # <<>>
                   THEN [calls EXCEPT ![t].pc = "evict", ![t].oldest = oldest_image[1].id]
                   ELSE [calls EXCEPT ![t].pc = "save"]
    /\ UNCHANGED <<storeVars, matchVars, events, processing, handling>>

\* auto_train_face at the maximum: delete_face_image(oldest_image['id'])
EnrolEvict(t) ==
    /\ calls[t].pc = "evict"
    /\ store' \in delete_face_image(store, calls[t].oldest)
    /\ calls' = [calls EXCEPT ![t].pc = "save"]
    /\ last' = [op |-> "delete_face_image", arg |-> calls[t].oldest, ret |-> NULL,
                exc |-> FALSE]
    /\ UNCHANGED <<enrolled, matchVars, events, processing, handling>>

\* auto_train_face saves the two files and inserts the row, and returns
EnrolSave(t, src) ==
    /\ calls[t].op = "auto_train_face"
    /\ calls[t].pc = "save"
    /\ store.seq.face_images < MaxFaceImages
    /\ store.stamp < MaxStamp
    /\ \E o \in AutoTrainSave(Stamped(store), calls[t].person_id,
                              NameOf(store, calls[t].person_id),
                              store.inbox[src].embedding, store.stamp + 1, src) :
         /\ store' = o.st
         /\ last' = Did("auto_train_face", calls[t].person_id, o)
         /\ enrolled' = IF o.ret # NULL
                        THEN Append(enrolled, [id |-> o.ret,
                                               person_id |-> calls[t].person_id])
                        ELSE enrolled
    /\ calls' = [calls EXCEPT ![t] = NoCall]
    /\ UNCHANGED <<matchVars, events, processing, handling>>

\* add_person_image reads the person, the maximum and the sample count, and
\* answers 400 at the maximum
AddImageBegin(t, p) ==
    /\ t \in WebThreads
    /\ calls[t].pc = "idle"
    /\ ~Unparsable(store, "max_images_per_person")
    /\ LET max_images == NumberSetting(store, "max_images_per_person")
           current_count == get_face_count(store, p.id)
       IN IF current_count >= max_images
          THEN /\ last' = [op |-> "add_person_image", arg |-> p.id, ret |-> NULL,
                           exc |-> FALSE]
               /\ UNCHANGED calls
          ELSE /\ calls' = [calls EXCEPT ![t] =
                              Began("add_person_image", p.id, max_images,
                                    current_count, "save")]
               /\ UNCHANGED last
    /\ UNCHANGED <<store, enrolled, matchVars, events, processing, handling>>

\* add_person_image finds a face in the upload and calls save_face_image
AddImageSave(t, embedding) ==
    /\ calls[t].op = "add_person_image"
    /\ calls[t].pc = "save"
    /\ store.seq.face_images < MaxFaceImages
    /\ store.stamp < MaxStamp
    /\ \E o \in save_face_image(store, calls[t].person_id,
                                NameOf(store, calls[t].person_id), embedding) :
         /\ store' = o.st
         /\ last' = Did("add_person_image", calls[t].person_id, o)
    /\ calls' = [calls EXCEPT ![t] = NoCall]
    /\ UNCHANGED <<enrolled, matchVars, events, processing, handling>>

NextRace ==
    \/ \E t \in Threads, p \in store.persons : EnrolBegin(t, p)
    \/ \E t \in Threads : EnrolOldest(t)
    \/ \E t \in Threads : EnrolEvict(t)
    \/ \E t \in Threads, src \in InboxNames : EnrolSave(t, src)
    \/ \E t \in Threads, p \in store.persons : AddImageBegin(t, p)
    \/ \E t \in Threads : AddImageSave(t, <<1, 0>>)

SpecRace == InitQuota /\ [][NextRace]_vars

\* C34: while an enrollment on the observer's thread interleaves with an
\* image added by a request for the same identity, no identity has more
\* samples than the configured maximum
C34_CountWithinMaximumUnderInterleaving ==
    \A p \in store.persons :
        get_face_count(store, p.id) <= NumberSetting(store, "max_images_per_person")

\* an enrollment and an image add for one identity have both passed their
\* count checks and both have saved: the identity is above the maximum
C34_BothSavedAboveMaximum ==
    /\ \A t \in Threads : calls[t].pc = "idle"
    /\ last.op = "add_person_image"
    /\ last.ret # NULL
    /\ enrolled # <<>>
    /\ \E p \in store.persons :
         /\ enrolled[Len(enrolled)].person_id = p.id
         /\ last.arg = p.id
         /\ get_face_count(store, p.id) > NumberSetting(store, "max_images_per_person")

(***************************************************************************)
(* SpecRetrain: POST /settings/retrain on two request threads.  The        *)
(* handler's statements are the steps; retrain_progress is shared.         *)
(***************************************************************************)
\* what extract_embedding gives for a stored image: a vector, or None
Extracted == {<<1, 1>>, <<>>}

RetrainCall(pc, persons, images, done) ==
    [NoCall EXCEPT !.op = "retrain_all", !.pc = pc, !.persons = persons,
                   !.images = images, !.done = done]

\* if retrain_progress['is_running']: return the error
RetrainCheck(t) ==
    /\ t \in WebThreads
    /\ calls[t].pc = "idle"
    /\ IF store.retrain_progress.is_running
       THEN /\ last' = [op |-> "retrain_all", arg |-> t, ret |-> FALSE, exc |-> FALSE]
            /\ UNCHANGED calls
       ELSE /\ calls' = [calls EXCEPT ![t] = RetrainCall("init", {}, <<>>, 0)]
            /\ UNCHANGED last
    /\ UNCHANGED <<store, enrolled, matchVars, events, processing, handling>>

\* is_running = True, current = 0, status = 'counting'
RetrainInit(t) ==
    /\ calls[t].pc = "init"
    /\ store' = [store EXCEPT !.retrain_progress.is_running = TRUE,
                              !.retrain_progress.current = 0,
                              !.retrain_progress.status = "counting"]
    /\ calls' = [calls EXCEPT ![t].pc = "count"]
    /\ UNCHANGED <<last, enrolled, matchVars, events, processing, handling>>

\* persons = get_all_persons(); total = the number of their images;
\* status = 'training'
RetrainCount(t) ==
    /\ calls[t].pc = "count"
    /\ store' = [store EXCEPT !.retrain_progress.total = Cardinality(store.face_images),
                              !.retrain_progress.status = "training"]
    /\ calls' = [calls EXCEPT ![t].pc = "train", ![t].persons = store.persons]
    /\ UNCHANGED <<last, enrolled, matchVars, events, processing, handling>>

\* the outer loop takes the next person: current_person, get_face_images
RetrainPerson(t, person) ==
    /\ calls[t].pc = "train"
    /\ calls[t].images = <<>>
    /\ person \in calls[t].persons
    /\ store' = [store EXCEPT !.retrain_progress.current_person =
                                 IF person.nickname # "" THEN person.nickname
                                 ELSE person.name]
    /\ calls' = [calls EXCEPT ![t].persons = @ \ {person},
                              ![t].images = get_face_images(store, person.id)]
    /\ UNCHANGED <<last, enrolled, matchVars, events, processing, handling>>

\* the inner loop takes the next image: current, then the embedding is
\* extracted from the original or the cropped file and stored, or the image
\* is skipped
RetrainImage(t, embedding) ==
    /\ calls[t].pc = "train"
    /\ calls[t].images # <<>>
    /\ LET img == Head(calls[t].images)
           shown == [store EXCEPT !.retrain_progress.current = calls[t].done + 1]
           readable == img.original_image_path \in store.files
                       \/ img.image_path \in store.files
       IN store' = IF readable /\ embedding # <<>>
                   THEN update_face_embedding(shown, img.id, embedding)
                   ELSE shown
    /\ calls' = [calls EXCEPT ![t].images = Tail(@), ![t].done = @ + 1]
    /\ UNCHANGED <<last, enrolled, matchVars, events, processing, handling>>

\* both loops are done: is_running = False, status = 'completed'
RetrainExit(t) ==
    /\ calls[t].pc = "train"
    /\ calls[t].images = <<>>
    /\ calls[t].persons = {}
    /\ store' = [store EXCEPT !.retrain_progress.is_running = FALSE,
                              !.retrain_progress.status = "completed"]
    /\ last' = [op |-> "retrain_all", arg |-> t, ret |-> TRUE, exc |-> FALSE]
    /\ calls' = [calls EXCEPT ![t] = NoCall]
    /\ UNCHANGED <<enrolled, matchVars, events, processing, handling>>

\* a statement of the try block raises: is_running = False, status = 'error'
RetrainRaises(t) ==
    /\ calls[t].op = "retrain_all"
    /\ calls[t].pc \in {"init", "count", "train"}
    /\ store.faultsLeft > 0
    /\ store' = [store EXCEPT !.retrain_progress.is_running = FALSE,
                              !.retrain_progress.status = "error",
                              !.faultsLeft = @ - 1]
    /\ last' = [op |-> "retrain_all", arg |-> t, ret |-> FALSE, exc |-> TRUE]
    /\ calls' = [calls EXCEPT ![t] = NoCall]
    /\ UNCHANGED <<enrolled, matchVars, events, processing, handling>>

NextRetrain ==
    \/ \E t \in Threads : RetrainCheck(t)
    \/ \E t \in Threads : RetrainInit(t)
    \/ \E t \in Threads : RetrainCount(t)
    \/ \E t \in Threads, person \in store.persons : RetrainPerson(t, person)
    \/ \E t \in Threads, embedding \in Extracted : RetrainImage(t, embedding)
    \/ \E t \in Threads : RetrainExit(t)
    \/ \E t \in Threads : RetrainRaises(t)

SpecRetrain == InitOwnership /\ [][NextRetrain]_vars

\* the threads in the try block of retrain_all after the flag was set
Retraining == {t \in Threads : calls[t].op = "retrain_all" /\ calls[t].pc \in {"count", "train"}}

\* a request that finds the running flag set is answered with the error and
\* changes neither the progress state nor an embedding
RetrainRejectionChangesNothing ==
    [][\A t \in Threads :
         (store.retrain_progress.is_running /\ t \in WebThreads /\ calls[t].pc = "idle"
          /\ last'.op = "retrain_all" /\ last'.arg = t /\ calls' = calls)
         => (store' = store /\ last'.ret = FALSE)]_vars

\* the running flag is false right after a retrain returns, by either exit
RetrainExitClearsFlag ==
    [][\A t \in Threads :
         (calls[t].op = "retrain_all" /\ calls[t].pc # "init" /\ calls'[t].pc = "idle")
         => ~store'.retrain_progress.is_running]_vars

\* C35: at most one retrain batch runs at a time: no two requests are inside
\* the batch (between setting the running flag and clearing it) together
C35_AtMostOneRetrainRuns == Cardinality(Retraining) <= 1

\* two requests have both passed the test of the running flag and both are
\* in the batch
C35_TwoRetrainsRun == Cardinality(Retraining) = 2

\* C36: an enrollment that fails with a storage fault (the cropped image is
\* not written, or the original is not copied) leaves the identity's
\* samples as they were: the same rows and the same stored files
C36_FailedEnrolmentLeavesSamples ==
    [][(/\ last'.op = "auto_train_face"
        /\ store'.stamp = store.stamp + 1
        /\ last'.ret = NULL
        /\ ~last'.exc)
       => \A p \in store.persons :
            p.id = last'.arg =>
               /\ SamplesIn(store', p.id) = SamplesIn(store, p.id)
               /\ PersonFiles(store', p.name) = PersonFiles(store, p.name)]_vars

\* an identity that was enrolled has no sample left after an enrollment for
\* it failed: the oldest sample was evicted before the save was tried
C36_FailedEnrolmentEvicted ==
    /\ last.op = "auto_train_face"
    /\ last.ret = NULL
    /\ ~last.exc
    /\ \E i \in DOMAIN enrolled : enrolled[i].person_id = last.arg
    /\ get_face_count(store, last.arg) = 0

(***************************************************************************)
(* SpecMedia: the operations that write or remove history media, with     *)
(* failing I/O operations.                                                 *)
(***************************************************************************)
NextMedia ==
    \/ NextLimit
    \/ \E h \in HistoryIdsDrawn : UndoRecognition(h)
    \/ ClearHistory
    \/ \E p \in PersonIds : DeletePerson(p)
    \/ CleanupOrphanFiles

SpecMedia == InitEvict /\ [][NextMedia]_vars

\* the image and thumbnail files the history records name
MediaOf(records) == UNION {{r.image_path, r.thumbnail_path} : r \in records}

\* C37: the image and the thumbnail of every history record exist after
\* every operation; and an append or an enforce_history_limit call in which
\* no file removal failed removes exactly the media files of the records
\* whose rows it removes, also among records of one second
C37_HistoryMediaExist ==
    [][/\ MediaOf(store'.recognition_history) \subseteq store'.files
       /\ (/\ last'.op \in {"save_history_record", "enforce_history_limit"}
           /\ store'.faultsLeft = store.faultsLeft)
          => store.files \ store'.files = MediaOf(Evicted)]_vars

\* of the two records ever appended, both in the current second, an
\* eviction has removed the second and its two files, and the first, which
\* stays, has its files
C37_Witness ==
    /\ last.op = "enforce_history_limit"
    /\ last.ret = 1
    /\ store.faultsLeft = MaxRemovalFaults
    /\ \E r \in store.recognition_history :
         /\ r.id = 1
         /\ store.seq.recognition_history = 2
         /\ r.timestamp = store.clock
         /\ \A q \in store.recognition_history : q.id = r.id
         /\ Cardinality({f \in store.files : f[1] = "logs"}) = 2

\* the files in the per-person directories of cropped and original images
TrainingFiles(S) == {f \in S.files : f[1] \in {"detect", "original"}}

\* C38: after any sequence of enrollments, sample deletions, quota evictions,
\* undos and identity deletions, every stored training file, cropped or
\* original, is the file of an existing face_images row
C38_TrainingFilesAreReferenced ==
    TrainingFiles(store) \subseteq SampleFiles(store.face_images)

\* a history record was undone without any failure and the original image of
\* the sample it had enrolled is still stored, with no row naming it
C38_UndoLeavesOriginal ==
    /\ last.op = "undo_recognition"
    /\ store.faultsLeft = MaxRemovalFaults
    /\ \E f \in TrainingFiles(store) :
         /\ f[1] = "original"
         /\ f \notin SampleFiles(store.face_images)

\* the images set_max_images removes are older than every image it keeps; a
\* new_max outside 1..100 is rejected, and the setting, the images and their
\* files stay as they were
SetMaxImagesKeepsNewest ==
    [][last'.op = "set_max_images" =>
         /\ last'.ret =>
              \A p \in store'.persons :
                 \A f \in SamplesIn(store, p.id) \ SamplesIn(store', p.id),
                    g \in SamplesIn(store', p.id) : FaceOlder(f, g)
         /\ (last'.arg < MinMaxImages \/ last'.arg > MaxMaxImagesAllowed) =>
              /\ ~last'.ret
              /\ store'.settings = store.settings
              /\ store'.face_images = store.face_images
              /\ store'.files = store.files]_vars

\* C39: after set_max_images(new_max) has succeeded every person has at most
\* new_max images
C39_WithinNewMaxAfterSetMaxImages ==
    (last.op = "set_max_images" /\ last.ret) =>
       \A p \in store.persons : get_face_count(store, p.id) <= last.arg

\* set_max_images has succeeded with the maximum the setting already had, and
\* a person who was above it still is
C39_StillAboveNewMax ==
    /\ last.op = "set_max_images"
    /\ last.ret
    /\ last.arg = store.settings.max_images_per_person
    /\ \E p \in store.persons : get_face_count(store, p.id) > last.arg

============================================================================
